---- MODULE Spec2Model ----
(***************************************************************************)
(* Wallet layer of OM1: the action dispatchers                             *)
(* (WalletCoinbaseConnector / WalletSolanaConnector) and the WalletManager.*)
(*                                                                         *)
(* Strings are sequences of one-character strings, so that strip, split,   *)
(* lower, join and float() are computed on the characters as Python        *)
(* computes them.  Optional[...] fields are records [some, val].           *)
(***************************************************************************)
EXTENDS Integers, Sequences, FiniteSets, Bags, TLC

(***************************************************************************)
(* Bounds of the model.                                                    *)
(***************************************************************************)
\* Invocations of connect() explored on one dispatcher instance.
MaxInvocations == 2
\* Operations explored on one WalletManager instance.
MaxManagerOps == 3
\* Steps of the detector's listen loop and of its consumer that are explored.
MaxClock == 9
\* Batches of transactions the chain confirms while a scan detector runs.
MaxArrivals == 1
\* Polls explored on one scan detector.
MaxScanPolls == 2
\* Transactions recorded by one WalletMultiProvider.
MaxTransactions == 2
\* Requests handled by one WebSim.
MaxRequests == 3
\* Operations explored on a WalletManager with both roles in use.
MaxRoleOps == 2

(***************************************************************************)
(* Python string primitives.                                               *)
(***************************************************************************)
\* The capital letters of the model and, at the same index, what str.lower()
\* gives for them: the ASCII and the Latin-1 capitals, and the Kelvin sign,
\* which becomes the ASCII k.
UpperChars ==
  <<"A","B","C","D","E","F","G","H","I","J",
    "K","L","M","N","O","P","Q","R","S","T",
    "U","V","W","X","Y","Z","U+00C0","U+00C1","U+00C2","U+00C3",
    "U+00C4","U+00C5","U+00C6","U+00C7","U+00C8","U+00C9","U+00CA","U+00CB","U+00CC","U+00CD",
    "U+00CE","U+00CF","U+00D0","U+00D1","U+00D2","U+00D3","U+00D4","U+00D5","U+00D6","U+00D8",
    "U+00D9","U+00DA","U+00DB","U+00DC","U+00DD","U+00DE","U+212A">>

LowerChars ==
  <<"a","b","c","d","e","f","g","h","i","j",
    "k","l","m","n","o","p","q","r","s","t",
    "u","v","w","x","y","z","U+00E0","U+00E1","U+00E2","U+00E3",
    "U+00E4","U+00E5","U+00E6","U+00E7","U+00E8","U+00E9","U+00EA","U+00EB","U+00EC","U+00ED",
    "U+00EE","U+00EF","U+00F0","U+00F1","U+00F2","U+00F3","U+00F4","U+00F5","U+00F6","U+00F8",
    "U+00F9","U+00FA","U+00FB","U+00FC","U+00FD","U+00FE","k">>

\* The characters str.strip() drops at both ends, which are those of
\* str.isspace().
Spaces ==
  {"\t","\n","U+000B","\f","\r","U+001C","U+001D","U+001E",
   "U+001F"," ","U+0085","U+00A0","U+1680","U+2000","U+2001","U+2002",
   "U+2003","U+2004","U+2005","U+2006","U+2007","U+2008","U+2009","U+200A",
   "U+2028","U+2029","U+202F","U+205F","U+3000"}

\* The characters float() drops at both ends: the same without the
\* separators 0x1c-0x1f, which it rejects.
FloatSpaces == Spaces \ {"U+001C", "U+001D", "U+001E", "U+001F"}

\* The decimal digits of the model, the digit of value d at index d + 1:
\* ASCII, Arabic-Indic, Devanagari and fullwidth.
DigitRows ==
  <<<<"0","1","2","3","4","5","6","7","8","9">>,
    <<"U+0660","U+0661","U+0662","U+0663","U+0664","U+0665","U+0666","U+0667","U+0668","U+0669">>,
    <<"U+0966","U+0967","U+0968","U+0969","U+096A","U+096B","U+096C","U+096D","U+096E","U+096F">>,
    <<"U+FF10","U+FF11","U+FF12","U+FF13","U+FF14","U+FF15","U+FF16","U+FF17","U+FF18","U+FF19">>>>

Punctuation ==
  {"!","#","$","%","&","'","(",")","*","+",",","-",".","/",":",";",
   "<","=",">","?","@","[","]","^","_","{","|","}","~"}

\* The characters of the model.  The capital I with dot above becomes two
\* characters in lower case, i and the combining dot above.
Chars ==
  {UpperChars[i] : i \in 1..Len(UpperChars)}
    \cup {LowerChars[i] : i \in 1..Len(LowerChars)}
    \cup {DigitRows[r][i] : r \in 1..Len(DigitRows), i \in 1..10}
    \cup Spaces \cup Punctuation \cup {"U+0130", "U+0307", "U+00DF"}

\* str.lower() of each character, as text.
LowerOf ==
  [c \in Chars |->
     IF c = "U+0130" THEN <<"i", "U+0307">>
     ELSE IF \E i \in 1..Len(UpperChars) : UpperChars[i] = c
     THEN <<LowerChars[CHOOSE i \in 1..Len(UpperChars) : UpperChars[i] = c]>>
     ELSE <<c>>]

\* str.lower() on one character.
LowerChar(c) == LowerOf[c]

\* str.lower()
RECURSIVE Lower(_)
Lower(s) == IF s = <<>> THEN <<>> ELSE LowerChar(Head(s)) \o Lower(Tail(s))

\* str.isspace() of a character.
IsSpace(c) == c \in Spaces

\* s without its leading, its trailing characters of the set.
RECURSIVE LStripOf(_, _)
LStripOf(s, set) ==
  IF s # <<>> /\ Head(s) \in set THEN LStripOf(Tail(s), set) ELSE s

RECURSIVE RStripOf(_, _)
RStripOf(s, set) ==
  IF s # <<>> /\ s[Len(s)] \in set THEN RStripOf(SubSeq(s, 1, Len(s) - 1), set) ELSE s

LStrip(s) == LStripOf(s, Spaces)

RStrip(s) == RStripOf(s, Spaces)

\* str.strip()
Strip(s) == RStrip(LStrip(s))

\* The text float() parses: s without the whitespace float() drops.
FloatStrip(s) == RStripOf(LStripOf(s, FloatSpaces), FloatSpaces)

\* Index of the first ":" of s, 0 when there is none.
FirstColon(s) ==
  IF \E i \in 1..Len(s) : s[i] = ":"
  THEN CHOOSE i \in 1..Len(s) : s[i] = ":" /\ \A j \in 1..(i - 1) : s[j] # ":"
  ELSE 0

\* str.split(":"): always at least one part; "" splits to [""].
RECURSIVE Split(_)
Split(s) ==
  LET k == FirstColon(s)
  IN  IF k = 0 THEN <<s>>
      ELSE <<SubSeq(s, 1, k - 1)>> \o Split(SubSeq(s, k + 1, Len(s)))

\* Only the first part, the rest of a message with colons dropped.
JoinFirstOnly(parts) == IF parts = <<>> THEN <<>> ELSE parts[1]

\* ":".join(parts)
RECURSIVE Join(_)
Join(parts) ==
  IF parts = <<>> THEN <<>>
  ELSE IF Len(parts) = 1 THEN parts[1]
  ELSE parts[1] \o <<":">> \o Join(Tail(parts))

\* The value of each character that is a decimal digit, 10 for the others.
DigitOf ==
  [c \in Chars |->
     IF \E r \in 1..Len(DigitRows), i \in 1..10 : DigitRows[r][i] = c
     THEN (CHOOSE i \in 1..10 : \E r \in 1..Len(DigitRows) : DigitRows[r][i] = c) - 1
     ELSE 10]

\* float() reads every decimal digit, of any script, as its value.
IsDigit(c) == DigitOf[c] < 10

DigitVal(c) == DigitOf[c]

RECURSIVE DecVal(_)
DecVal(s) ==
  IF s = <<>> THEN 0 ELSE 10 * DecVal(SubSeq(s, 1, Len(s) - 1)) + DigitVal(s[Len(s)])

Abs(n) == IF n < 0 THEN 0 - n ELSE n

RECURSIVE NumDigits(_)
NumDigits(n) == IF n < 10 THEN 1 ELSE 1 + NumDigits(n \div 10)

RECURSIVE Pow10(_)
Pow10(k) == IF k <= 0 THEN 1 ELSE 10 * Pow10(k - 1)

\* A Python float, kept as the decimal m * 10^e it was written as, with m
\* not a multiple of ten (zero is m = 0, e = 0); an infinity carries its
\* sign in m.  Exact for literals of at most nine significant digits.
RECURSIVE Finite(_, _)
Finite(m, e) ==
  IF m = 0 THEN [kind |-> "finite", m |-> 0, e |-> 0]
  ELSE IF m % 10 = 0 THEN Finite(m \div 10, e + 1)
  ELSE [kind |-> "finite", m |-> m, e |-> e]

Infinite(sign) == [kind |-> "inf", m |-> sign, e |-> 0]
NaN == [kind |-> "nan", m |-> 0, e |-> 0]

\* float(n) of an integer.
Float(n) == Finite(n, 0)

\* The exponent of x in scientific notation: |x| = d.ddd * 10^SciExp(x).
SciExp(x) == NumDigits(Abs(x.m)) + x.e - 1

\* |x| is larger than the bound whose scientific exponent is bexp and whose
\* first digits are prefix (the bound has further digits after them).
ExceedsDec(x, bexp, prefix) ==
  /\ x.kind = "finite"
  /\ x.m # 0
  /\ \/ SciExp(x) > bexp
     \/ /\ SciExp(x) = bexp
        /\ LET n == NumDigits(Abs(x.m))
               np == NumDigits(prefix)
           IN  IF n <= np THEN Abs(x.m) > prefix \div Pow10(np - n)
               ELSE Abs(x.m) \div Pow10(n - np) > prefix

\* x < 0, x > 0 as Python compares floats (every comparison with nan is False).
IsNegative(x) == x.kind # "nan" /\ x.m < 0
IsPositive(x) == x.kind # "nan" /\ x.m > 0

\* Index of the first character of s that is in set, 0 when there is none.
FirstOf(s, set) ==
  IF \E i \in 1..Len(s) : s[i] \in set
  THEN CHOOSE i \in 1..Len(s) : s[i] \in set /\ \A j \in 1..(i - 1) : s[j] \notin set
  ELSE 0

\* digit (["_"] digit)*: underscores only between two digits.
IsDigitPart(s) ==
  /\ s # <<>>
  /\ IsDigit(s[1])
  /\ IsDigit(s[Len(s)])
  /\ \A i \in 1..Len(s) : IsDigit(s[i]) \/ s[i] = "_"
  /\ \A i \in 1..(Len(s) - 1) : ~(s[i] = "_" /\ s[i + 1] = "_")

DigitsOnly(s) == SelectSeq(s, IsDigit)

\* What float(s) gives: a value, or ValueError.
Parsed(x) == [ok |-> TRUE, val |-> x]
NotFloat == [ok |-> FALSE, val |-> Float(0)]

\* The double nearest to sign * x at the ends of the range: a magnitude above
\* the largest double is an infinity, one below the smallest is zero.
FloatRounded(sign, x) ==
  IF ExceedsDec(x, 308, 1797693134) THEN Parsed(Infinite(sign))
  ELSE IF ~ExceedsDec(x, 0 - 324, 247032822) THEN Parsed(Float(0))
  ELSE Parsed(Finite(sign * x.m, x.e))

\* The numeral with integer part ip, fraction part fp and, when hasExp, the
\* exponent esign * edigits: a part is empty or digits, one of ip and fp is
\* not empty, and an exponent has digits.
FloatOfParts(sign, ip, fp, hasExp, esign, edigits) ==
  IF /\ ip = <<>> \/ IsDigitPart(ip)
     /\ fp = <<>> \/ IsDigitPart(fp)
     /\ ip # <<>> \/ fp # <<>>
     /\ ~hasExp \/ IsDigitPart(edigits)
  THEN FloatRounded(sign, Finite(DecVal(DigitsOnly(ip) \o DigitsOnly(fp)),
                                 esign * DecVal(DigitsOnly(edigits)) - Len(DigitsOnly(fp))))
  ELSE NotFloat

\* The mantissa mant with its decimal point at d (0: none) and the text expo
\* after the exponent letter, which may begin with a sign.
FloatOfMantissa(sign, mant, d, hasExp, expo) ==
  FloatOfParts(sign,
               IF d = 0 THEN mant ELSE SubSeq(mant, 1, d - 1),
               IF d = 0 THEN <<>> ELSE SubSeq(mant, d + 1, Len(mant)),
               hasExp,
               IF expo # <<>> /\ Head(expo) = "-" THEN 0 - 1 ELSE 1,
               IF expo # <<>> /\ Head(expo) \in {"+", "-"} THEN Tail(expo) ELSE expo)

\* The numeral body with its exponent letter at k (0: none).
FloatOfNumeral(sign, body, k, mant) ==
  FloatOfMantissa(sign, mant, FirstOf(mant, {"."}), k # 0,
                  IF k = 0 THEN <<>> ELSE SubSeq(body, k + 1, Len(body)))

\* The text after the sign: "inf", "infinity" or "nan" in any case, or a
\* numeral.
FloatOfBody(sign, body, k) ==
  IF Lower(body) \in {<<"i","n","f">>, <<"i","n","f","i","n","i","t","y">>}
  THEN Parsed(Infinite(sign))
  ELSE IF Lower(body) = <<"n","a","n">>
  THEN Parsed(NaN)
  ELSE FloatOfNumeral(sign, body, k, IF k = 0 THEN body ELSE SubSeq(body, 1, k - 1))

\* The text without surrounding whitespace: an optional sign, then the body.
FloatOfStripped(t, body) ==
  FloatOfBody(IF t # <<>> /\ Head(t) = "-" THEN 0 - 1 ELSE 1, body,
              FirstOf(body, {"e", "E"}))

\* float(s) on text: surrounding whitespace is dropped; an optional sign,
\* then "inf", "infinity" or "nan" in any case, or digits with an optional
\* decimal point and an optional exponent, underscores allowed between
\* digits.  Anything else is ValueError.
FloatOfText(t) ==
  FloatOfStripped(t, IF t # <<>> /\ Head(t) \in {"+", "-"} THEN Tail(t) ELSE t)

ParseFloat(s) == FloatOfText(FloatStrip(s))

(***************************************************************************)
(* Optional fields of WalletInput.                                         *)
(***************************************************************************)
NoStr == [some |-> FALSE, val |-> <<>>]
SomeStr(s) == [some |-> TRUE, val |-> s]
NoNum == [some |-> FALSE, val |-> 0]
SomeNum(n) == [some |-> TRUE, val |-> n]
\* WalletInput.amount: None, or a float.
NoAmount == [some |-> FALSE, val |-> Float(0)]

\* Python truthiness of an Optional[str]: None and "" are falsy.
Truthy(o) == o.some /\ o.val # <<>>

(***************************************************************************)
(* State.                                                                  *)
(***************************************************************************)
VARIABLES
  chain,          \* dispatcher instance: "evm" (coinbase.py) or "sol" (solana.py)
  privateKey,     \* ETH_PRIVATE_KEY / SOLANA_PRIVATE_KEY at construction
  account,        \* self.account and self.w3 (self.keypair, self.client, self.pubkey) are set
  sink,           \* records the dispatcher added to the IOProvider, oldest first
  invocations,    \* completed calls of connect()
  pending,        \* calls of connect() suspended at an await, a bag
  last,           \* input and trace of the most recent connect()
  robot_connected,   \* WalletManager._robot_connected
  user_connected,    \* WalletManager._user_connected
  user_wallet_info,  \* UserWalletProvider.wallet_info
  mgr_ops,           \* WalletManager operations performed
  mgr_last,          \* the most recent WalletManager operation and its result
  mgr_trace,         \* the operations performed so far and how each ended, oldest first
  robot_account,     \* CoinbaseProvider.account is set
  robot_w3,          \* CoinbaseProvider.w3 is set
  det_account,           \* WalletCoinbase.account and WalletCoinbase.w3 are set
  ETH_balance,           \* WalletCoinbase.ETH_balance
  ETH_balance_previous,  \* WalletCoinbase.ETH_balance_previous
  messages,              \* self.messages of the detector, the notification buffer
  det_sink,              \* records the detector added to the IOProvider, oldest first
  det_loop,              \* position of the detector's listen loop and the value it holds
  now,                   \* time.time()
  det_last,              \* the most recent step of the detector and what it gave
  det_trace,             \* appends to the buffer and consumptions so far, oldest first
  sol_account,           \* WalletSolana.keypair, client and pubkey are set
  SOL_balance,           \* WalletSolana.SOL_balance
  SOL_balance_previous,  \* WalletSolana.SOL_balance_previous
  last_signature,        \* WalletSolana.last_signature, the cursor
  history,               \* the transactions the chain holds for the account, oldest first
  arrivals,              \* batches of transactions confirmed since construction
  scan_last,             \* the most recent WalletSolana._poll and what it read
  rpc_wait,              \* calls a coroutine awaits whose reply has not arrived
  connected_wallets,     \* WalletMultiProvider.connected_wallets
  transactions,          \* WalletMultiProvider.transactions, oldest first
  multi_last,            \* the most recent WalletMultiProvider operation and its result
  sim_state,             \* WebSim.state: wallet_action and wallet_status
  sim_inputs,            \* records WebSim added to the IOProvider, oldest first
  sim_last               \* the most recent WebSim request, the manager's result, the answer

dispatchVars == <<chain, privateKey, account, sink, invocations, pending, last>>
managerVars == <<robot_connected, user_connected, user_wallet_info, mgr_ops, mgr_last,
                 mgr_trace>>
robotVars == <<robot_account, robot_w3>>
detectorVars == <<det_account, ETH_balance, ETH_balance_previous, messages, det_sink,
                  det_loop, now, det_last, det_trace>>
scanVars == <<sol_account, SOL_balance, SOL_balance_previous, last_signature, history,
              arrivals, scan_last, rpc_wait>>
browserVars == <<connected_wallets, transactions, multi_last, sim_state, sim_inputs, sim_last>>
vars == <<chain, privateKey, account, sink, invocations, pending, last,
          robot_connected, user_connected, user_wallet_info, mgr_ops, mgr_last,
          mgr_trace, robot_account, robot_w3,
          det_account, ETH_balance, ETH_balance_previous, messages, det_sink,
          det_loop, now, det_last, det_trace,
          sol_account, SOL_balance, SOL_balance_previous, last_signature, history,
          arrivals, scan_last, rpc_wait,
          connected_wallets, transactions, multi_last, sim_state, sim_inputs, sim_last>>

(***************************************************************************)
(* Chain collaborators of _transfer_assets, in the order the code reaches  *)
(* them.  "rpc" steps are network calls; the others run locally.           *)
(***************************************************************************)
EvmTransferSteps ==
  << [name |-> "get_transaction_count", rpc |-> TRUE],
     [name |-> "gas_price", rpc |-> TRUE],
     [name |-> "to_wei", rpc |-> FALSE],
     [name |-> "to_checksum_address", rpc |-> FALSE],
     [name |-> "chain_id", rpc |-> TRUE],
     [name |-> "sign_transaction", rpc |-> FALSE],
     [name |-> "send_raw_transaction", rpc |-> TRUE],
     [name |-> "wait_for_transaction_receipt", rpc |-> TRUE] >>

SolTransferSteps ==
  << [name |-> "Pubkey.from_string", rpc |-> FALSE],
     [name |-> "TransferParams", rpc |-> FALSE],
     [name |-> "get_latest_blockhash", rpc |-> TRUE],
     [name |-> "sign", rpc |-> FALSE],
     [name |-> "send_transaction", rpc |-> TRUE],
     [name |-> "confirm_transaction", rpc |-> TRUE] >>

TransferSteps(c) == IF c = "evm" THEN EvmTransferSteps ELSE SolTransferSteps

\* The step that hands the signed transaction to the network.
BroadcastStep(c) == IF c = "evm" THEN "send_raw_transaction" ELSE "send_transaction"

HexChars ==
  {"0","1","2","3","4","5","6","7","8","9",
   "a","b","c","d","e","f","A","B","C","D","E","F"}

\* Characters outside the base58 alphabet.
NotBase58Chars == {"0", "O", "I", "l", ":", " ", "-"}

\* Web3.to_checksum_address accepts hexadecimal address text only.
IsEvmAddress(a) == a # <<>> /\ \A i \in 1..Len(a) : a[i] \in HexChars

\* Pubkey.from_string accepts base58 text only.
IsSolAddress(a) == a # <<>> /\ \A i \in 1..Len(a) : a[i] \notin NotBase58Chars

IsChainAddress(c, a) == IF c = "evm" THEN IsEvmAddress(a) ELSE IsSolAddress(a)

\* Whether a local step raises on these arguments.  to_wei rejects nan, an
\* infinity, a negative value and more than 2^256 - 1 wei (1.157920892e59
\* ether).  The lamports are int(amount * 1_000_000_000), which raises on
\* nan and on an infinity and truncates toward zero; TransferParams rejects
\* less than 0 and more than 2^64 - 1 of them (1.844674407e10 SOL).  The
\* address conversions reject malformed text.
LocalStepRaises(c, name, to_address, amount) ==
  \/ /\ name = "to_wei"
     /\ \/ amount.kind # "finite"
        \/ amount.m < 0
        \/ ExceedsDec(amount, 59, 1157920892)
  \/ /\ name = "TransferParams"
     /\ \/ amount.kind # "finite"
        \/ amount.m < 0 /\ SciExp(amount) >= 0 - 9
        \/ ExceedsDec(amount, 10, 1844674407)
  \/ name \in {"to_checksum_address", "Pubkey.from_string"} /\ ~IsChainAddress(c, to_address)

\* Index of the first step that raises, 0 when every step returns.  failAt is
\* the step the environment makes fail (0: none).
FirstRaise(c, to_address, amount, failAt) ==
  LET steps == TransferSteps(c)
      bad == {i \in 1..Len(steps) :
                \/ i = failAt
                \/ LocalStepRaises(c, steps[i].name, to_address, amount)}
  IN  IF bad = {} THEN 0 ELSE CHOOSE i \in bad : \A j \in bad : i <= j

\* The rpc steps among the first n steps, the last of them issued twice.
RpcCallsRetried(steps, n) ==
  LET reached == SelectSeq([i \in 1..n |-> steps[i]], LAMBDA s : s.rpc)
      names == [i \in 1..Len(reached) |-> reached[i].name]
  IN  IF names = <<>> THEN names ELSE Append(names, names[Len(names)])

\* Names of the rpc steps among the first n steps.
RECURSIVE RpcCalls(_, _)
RpcCalls(steps, n) ==
  IF n = 0 THEN <<>>
  ELSE RpcCalls(steps, n - 1) \o (IF steps[n].rpc THEN <<steps[n].name>> ELSE <<>>)

(***************************************************************************)
(* Status records and the private operations of the connectors.            *)
(***************************************************************************)
PollVerb == <<"p","o","l","l">>
SignVerb == <<"s","i","g","n">>
SendVerb == <<"s","e","n","d">>
TransferVerb == <<"t","r","a","n","s","f","e","r">>

\* _write_status whose record never reaches the IOProvider.
WriteStatusLost(action, status, reason) == <<>>

\* _write_status(action, status, details): one record for the IOProvider.
\* details are kept as the reason (failed) or empty (success).
WriteStatus(action, status, reason) ==
  <<[action |-> action, status |-> status, reason |-> reason]>>

\* What one private operation did: the records it wrote, the rpc calls it
\* issued, the message it had signed, whether it broadcast a transaction, the
\* step that raised (0: none) and whether the exception left the operation.
Outcome(handler, writes, calls, signed, broadcast, raised, escaped) ==
  [handler |-> handler, writes |-> writes, calls |-> calls, signed |-> signed,
   broadcast |-> broadcast, raised |-> raised, escaped |-> escaped]

\* Outcomes of the chain collaborators in one invocation: the step made to
\* raise (0: none) and what the confirmation reports for the transaction.
Env(failAt, receipt) == [failAt |-> failAt, receipt |-> receipt]

\* _poll_balance without its except clause: the rpc error leaves the operation.
PollBalanceUncaught(c, acct, asset_id, env) ==
  IF ~acct
  THEN [handler |-> "poll",
        writes |-> <<[action |-> PollVerb, status |-> "failed",
                      reason |-> "wallet_not_initialized"]>>,
        calls |-> <<>>, signed |-> NoStr, broadcast |-> FALSE, raised |-> 0,
        escaped |-> FALSE]
  ELSE IF env.failAt = 1
  THEN [handler |-> "poll", writes |-> <<>>, calls |-> <<"get_balance">>,
        signed |-> NoStr, broadcast |-> FALSE, raised |-> 1, escaped |-> TRUE]
  ELSE [handler |-> "poll",
        writes |-> <<[action |-> PollVerb, status |-> "success", reason |-> ""]>>,
        calls |-> <<"get_balance">>, signed |-> NoStr, broadcast |-> FALSE,
        raised |-> 0, escaped |-> FALSE]

\* _poll_balance
PollBalance(c, acct, asset_id, env) ==
  IF ~acct
  THEN Outcome("poll", WriteStatus(PollVerb, "failed", "wallet_not_initialized"),
               <<>>, NoStr, FALSE, 0, FALSE)
  ELSE IF env.failAt = 1
  THEN Outcome("poll", WriteStatus(PollVerb, "failed", "exception"),
               <<"get_balance">>, NoStr, FALSE, 1, FALSE)
  ELSE Outcome("poll", WriteStatus(PollVerb, "success", ""),
               <<"get_balance">>, NoStr, FALSE, 0, FALSE)

\* _sign_message signing with whatever account it finds.
SignMessageUnguarded(c, acct, message, env) ==
  IF env.failAt = 1
  THEN [handler |-> "sign",
        writes |-> <<[action |-> SignVerb, status |-> "failed", reason |-> "exception"]>>,
        calls |-> <<>>, signed |-> NoStr, broadcast |-> FALSE, raised |-> 1,
        escaped |-> FALSE]
  ELSE [handler |-> "sign",
        writes |-> <<[action |-> SignVerb, status |-> "success", reason |-> ""]>>,
        calls |-> <<>>, signed |-> SomeStr(message), broadcast |-> FALSE, raised |-> 0,
        escaped |-> FALSE]

\* _sign_message
SignMessage(c, acct, message, env) ==
  IF ~acct
  THEN Outcome("sign", WriteStatus(SignVerb, "failed", "wallet_not_initialized"),
               <<>>, NoStr, FALSE, 0, FALSE)
  ELSE IF env.failAt = 1
  THEN Outcome("sign", WriteStatus(SignVerb, "failed", "exception"),
               <<>>, NoStr, FALSE, 1, FALSE)
  ELSE Outcome("sign", WriteStatus(SignVerb, "success", ""),
               <<>>, SomeStr(message), FALSE, 0, FALSE)

\* _send_transaction guarded like the other operations.
SendTransactionGuarded(c, acct, to_address, asset_id) ==
  IF ~acct
  THEN [handler |-> "send",
        writes |-> <<[action |-> SendVerb, status |-> "failed",
                      reason |-> "wallet_not_initialized"]>>,
        calls |-> <<>>, signed |-> NoStr, broadcast |-> FALSE, raised |-> 0,
        escaped |-> FALSE]
  ELSE [handler |-> "send",
        writes |-> <<[action |-> SendVerb, status |-> "failed",
                      reason |-> "use_transfer_action_instead"]>>,
        calls |-> <<>>, signed |-> NoStr, broadcast |-> FALSE, raised |-> 0,
        escaped |-> FALSE]

\* _send_transaction: a placeholder that only reports.
SendTransaction(c, acct, to_address, asset_id) ==
  Outcome("send", WriteStatus(SendVerb, "failed", "use_transfer_action_instead"),
          <<>>, NoStr, FALSE, 0, FALSE)

\* _transfer_assets
TransferAssets(c, acct, to_address, amount, asset_id, env) ==
  IF ~acct
  THEN Outcome("transfer", WriteStatus(TransferVerb, "failed", "wallet_not_initialized"),
               <<>>, NoStr, FALSE, 0, FALSE)
  ELSE
    LET steps == TransferSteps(c)
        r == FirstRaise(c, to_address, amount, env.failAt)
        done == IF r = 0 THEN Len(steps) ELSE r
        calls == RpcCalls(steps, done)
        sent == \E i \in 1..Len(steps) :
                  /\ steps[i].name = BroadcastStep(c)
                  /\ (r = 0 \/ i < r)
    IN  IF r # 0
        THEN Outcome("transfer", WriteStatus(TransferVerb, "failed", "exception"),
                     calls, NoStr, sent, r, FALSE)
        ELSE Outcome("transfer", WriteStatus(TransferVerb, "success", ""),
                     calls, NoStr, sent, 0, FALSE)

(***************************************************************************)
(* connect(): parse the action string, validate, run the operation.        *)
(***************************************************************************)
\* action_str = (output_interface.action or "").strip(); parts = split(":")
Parts(iface) == Split(Strip(IF iface.action.some THEN iface.action.val ELSE <<>>))

\* The verb compared as written, without lower().
ActionOfCaseSensitive(iface) == Parts(iface)[1]

\* action = parts[0].lower()
ActionOf(iface) == Lower(Parts(iface)[1])

\* amount = float(parts[2]); on ValueError the amount stays what it was.
AmountOr(f, amount) == IF f.ok THEN SomeNum(f.val) ELSE amount

\* The input object after "Parse additional parameters from action string".
ParseParams(iface) ==
  LET parts == Parts(iface)
      action == ActionOf(iface)
  IN  IF Len(parts) > 1 /\ action = SignVerb
      THEN [iface EXCEPT !.message = SomeStr(Join(Tail(parts)))]
      ELSE IF Len(parts) > 1 /\ action = TransferVerb /\ Len(parts) >= 3
      THEN [iface EXCEPT !.to_address = SomeStr(parts[2]),
                        !.amount = AmountOr(ParseFloat(parts[3]), @)]
      ELSE IF Len(parts) > 1 /\ action = SendVerb /\ Len(parts) >= 2
      THEN [iface EXCEPT !.to_address = SomeStr(parts[2])]
      ELSE iface

\* asset_id = (output_interface.asset_id or <default>).strip().lower()
AssetId(c, iface) ==
  Lower(Strip(IF Truthy(iface.asset_id) THEN iface.asset_id.val
              ELSE IF c = "evm" THEN <<"e","t","h">> ELSE <<"s","o","l">>))

\* The branch of connect() taken for a parsed action.
Connect(c, acct, iface, env) ==
  LET action == ActionOf(iface)
      p == ParseParams(iface)
      asset_id == AssetId(c, iface)
  IN  IF action = PollVerb THEN PollBalance(c, acct, asset_id, env)
      ELSE IF action = SignVerb
      THEN IF ~Truthy(p.message)
           THEN Outcome("none", WriteStatus(SignVerb, "failed", "missing_message"),
                        <<>>, NoStr, FALSE, 0, FALSE)
           ELSE SignMessage(c, acct, p.message.val, env)
      ELSE IF action = SendVerb
      THEN IF ~Truthy(p.to_address)
           THEN Outcome("none", WriteStatus(SendVerb, "failed", "missing_to_address"),
                        <<>>, NoStr, FALSE, 0, FALSE)
           ELSE SendTransaction(c, acct, p.to_address.val, asset_id)
      ELSE IF action = TransferVerb
      THEN IF ~Truthy(p.to_address) \/ ~p.amount.some
           THEN Outcome("none", WriteStatus(TransferVerb, "failed", "missing_parameters"),
                        <<>>, NoStr, FALSE, 0, FALSE)
           ELSE TransferAssets(c, acct, p.to_address.val, p.amount.val, asset_id, env)
      ELSE Outcome("none", WriteStatus(action, "failed", "unknown_action"),
                   <<>>, NoStr, FALSE, 0, FALSE)

(***************************************************************************)
(* Inputs of connect(): the action strings and the fields the caller may   *)
(* have set on the WalletInput object.                                     *)
(***************************************************************************)
AddrArgs == {<<>>, <<"a","b">>, <<"z","z">>, <<"0","a">>}
AmountArgs == {<<>>, <<"1">>, <<"0">>, <<"-","1">>, <<"x">>}
SignedArgs == {<<"1">>, <<"-","1">>}
\* Amounts float() reads besides the plain integers.
FloatArgs == {<<"1",".","5">>, <<"n","a","n">>, <<"-","1","e","-","1","0">>}
MoreFloatArgs ==
  {<<"+","1">>, <<"1","e","2">>, <<"1","_","0">>, <<"i","n","f">>, <<"\t","1">>,
   <<"U+000B","1">>, <<"U+001C","1">>, <<"U+FF11">>}
SignMessages == {<<>>, <<"h","i">>, <<"a",":","b">>, <<"h","i"," ">>, <<"h","i","\t">>, <<" ">>}

PollCmds == {<<"p","o","l","l">>, <<"P","O","L","L">>, <<" ","p","o","l","l"," ">>, <<"\t","p","o","l","l">>, <<"p","o","l","l","\n">>, <<"U+000B","p","o","l","l">>, <<"p","o","l","l",":","a","b">>}

SignCmds ==
  { SignVerb \o <<":">> \o m : m \in SignMessages }
    \cup {<<"s","i","g","n">>, <<"S","I","G","N",":","h","i">>, <<"S","i","g","n",":","a",":","b">>}

SendCmds == {<<"s","e","n","d">>, <<"s","e","n","d",":">>, <<"s","e","n","d",":","a","b">>, <<"s","e","n","d",":","z","z">>, <<"S","e","n","d",":","a","b">>, <<"s","e","n","d",":","a","b",":","1">>}

TransferCmds ==
  { TransferVerb \o <<":">> \o a \o <<":">> \o n : a \in AddrArgs, n \in SignedArgs }
    \cup { TransferVerb \o <<":","a","b",":">> \o n : n \in AmountArgs \cup FloatArgs }
    \cup { TransferVerb \o <<":","0","a",":">> \o n : n \in MoreFloatArgs }
    \cup {<<"t","r","a","n","s","f","e","r">>, <<"t","r","a","n","s","f","e","r",":","a","b">>, <<"T","R","A","N","S","F","E","R",":","a","b",":","1">>, <<"T","r","a","n","s","f","e","r",":","z","z",":","0">>, <<"t","r","a","n","s","f","e","r",":","a","b",":","1",":","9">>, <<"t","r","a","n","s","f","e","r",":","a","b",":"," ","1">>}

UnknownCmds == {<<>>, <<"f","o","o",":","a","b",":","1">>, <<"s","i","g","n"," ",":","h","i">>, <<"p","o","l","l","s">>, <<"U+00C9">>}

ActionStrings == PollCmds \cup SignCmds \cup SendCmds \cup TransferCmds \cup UnknownCmds

\* WalletInput as handed to connect(): message, to_address and amount default
\* to None and may have been set by the caller; asset_id defaults to "eth".
WalletInput(action, message, to_address, amount) ==
  [action |-> SomeStr(action), message |-> message, to_address |-> to_address,
   amount |-> amount, asset_id |-> SomeStr(<<"e","t","h">>)]

PresetFields ==
  { [message |-> NoStr, to_address |-> NoStr, amount |-> NoAmount],
    [message |-> NoStr, to_address |-> NoStr, amount |-> SomeNum(Float(3))],
    [message |-> SomeStr(<<"m">>), to_address |-> SomeStr(<<"c","d">>),
     amount |-> SomeNum(Float(3))] }

\* connect() reads a field as the caller set it: the message of a sign
\* without arguments, the address of a send without arguments, the address
\* and the amount of a transfer with fewer than two arguments, the amount
\* of a transfer whose amount float() rejects.  Every other field is
\* overwritten from the action string or never read.
ReadsCallerFields(action) ==
  LET parts == Split(Strip(action))
      verb == Lower(parts[1])
  IN  \/ verb \in {SignVerb, SendVerb} /\ Len(parts) = 1
      \/ verb = TransferVerb /\ (Len(parts) < 3 \/ ~ParseFloat(parts[3]).ok)

\* The input objects: every action string on an object with no field set,
\* and the action strings that read a field on the objects that have them set.
Inputs ==
  { WalletInput(a, NoStr, NoStr, NoAmount) : a \in ActionStrings }
    \cup { WalletInput(a, f.message, f.to_address, f.amount) :
             a \in {x \in ActionStrings : ReadsCallerFields(x)}, f \in PresetFields }

\* Steps of _transfer_assets the environment can make fail: the network calls
\* and the signing of the transaction.
FallibleSteps(c) ==
  {i \in 1..Len(TransferSteps(c)) :
     TransferSteps(c)[i].rpc \/ TransferSteps(c)[i].name \in {"sign_transaction", "sign"}}

\* The collaborator outcomes that can be told apart for this input: a step
\* after one that raises on the arguments themselves is never reached.
Envs(c, acct, iface) ==
  LET action == ActionOf(iface)
      p == ParseParams(iface)
  IN  IF ~acct THEN {Env(0, "none")}
      ELSE IF action = PollVerb \/ (action = SignVerb /\ Truthy(p.message))
      THEN {Env(0, "none"), Env(1, "none")}
      ELSE IF action = TransferVerb /\ Truthy(p.to_address) /\ p.amount.some
      THEN LET r == FirstRaise(c, p.to_address.val, p.amount.val, 0)
           IN  IF r = 0
               THEN {Env(i, "none") : i \in FallibleSteps(c)}
                      \cup {Env(0, "ok"), Env(0, "reverted")}
               ELSE {Env(i, "none") : i \in {j \in FallibleSteps(c) : j < r}}
                      \cup {Env(0, "none")}
      ELSE {Env(0, "none")}

(***************************************************************************)
(* The dispatcher as a state machine.                                      *)
(***************************************************************************)
NoInvocation ==
  [iface |-> WalletInput(<<>>, NoStr, NoStr, NoAmount),
   env |-> Env(0, "none"),
   out |-> Outcome("init", <<>>, <<>>, NoStr, FALSE, 0, FALSE)]

\* The step of the operation that raises under these collaborator outcomes,
\* 0 when none does.
RaisedAt(c, iface, env) ==
  IF ActionOf(iface) = TransferVerb
  THEN FirstRaise(c, ParseParams(iface).to_address.val, ParseParams(iface).amount.val,
                  env.failAt)
  ELSE env.failAt

\* The steps at which connect() is suspended at an await, in order.  With a
\* wallet, _poll_balance awaits get_balance; _sign_message of coinbase.py
\* awaits run_in_executor(sign_message) and that of solana.py awaits
\* nothing; _transfer_assets of coinbase.py awaits run_in_executor once for
\* all the steps of _build_and_send_tx and that of solana.py awaits each of
\* its rpc calls.  Every other branch returns without an await.
AwaitPoints(c, acct, iface) ==
  LET action == ActionOf(iface)
      p == ParseParams(iface)
      steps == TransferSteps(c)
  IN  IF ~acct THEN <<>>
      ELSE IF action = PollVerb THEN <<1>>
      ELSE IF action = SignVerb /\ Truthy(p.message)
      THEN IF c = "evm" THEN <<1>> ELSE <<>>
      ELSE IF action = TransferVerb /\ Truthy(p.to_address) /\ p.amount.some
      THEN IF c = "evm" THEN <<Len(steps)>>
           ELSE LET r == FirstRaise(c, p.to_address.val, p.amount.val, 0)
                IN  SelectSeq([i \in 1..Len(steps) |-> i],
                              LAMBDA i : steps[i].rpc /\ (r = 0 \/ i < r))
      ELSE <<>>

\* Every run of connect() on a connector instance, by its input object: the
\* collaborator outcomes and what the call did.
Runs ==
  [c \in {"evm", "sol"}, acct \in BOOLEAN |->
     [iface \in Inputs |->
        { [iface |-> iface, env |-> env, out |-> Connect(c, acct, iface, env),
           raised |-> RaisedAt(c, iface, env)] :
            env \in Envs(c, acct, iface) }]]

Awaits ==
  [c \in {"evm", "sol"}, acct \in BOOLEAN |->
     [iface \in Inputs |-> AwaitPoints(c, acct, iface)]]

\* A call of connect() suspended at its at-th await.
Suspended(iface, at) == [iface |-> iface, at |-> at]

\* __init__: the wallet is set up only from a usable private key.
ConnectorInit ==
  /\ chain \in {"evm", "sol"}
  /\ privateKey \in {"absent", "invalid", "valid"}
  /\ account = (privateKey = "valid")
  /\ sink = <<>>
  /\ invocations = 0
  /\ pending = EmptyBag
  /\ last = NoInvocation

\* connect(output_interface) from its call to its first await, or to its
\* return when it reaches none.  The status record is written at the end of
\* the operation.
DispatcherConnect ==
  /\ invocations + BagCardinality(pending) < MaxInvocations
  /\ \E iface \in Inputs :
       IF Awaits[chain, account][iface] = <<>>
       THEN /\ \E run \in Runs[chain, account][iface] :
                 /\ sink' = sink \o run.out.writes
                 /\ last' = [iface |-> run.iface, env |-> run.env, out |-> run.out]
            /\ invocations' = invocations + 1
            /\ UNCHANGED pending
       ELSE /\ pending' = pending (+) SetToBag({Suspended(iface, 1)})
            /\ UNCHANGED <<sink, last, invocations>>
  /\ UNCHANGED <<chain, privateKey, account>>
  /\ UNCHANGED managerVars
  /\ UNCHANGED robotVars
  /\ UNCHANGED detectorVars
  /\ UNCHANGED scanVars
  /\ UNCHANGED browserVars

\* A suspended connect() from the reply of the call it awaits to its next
\* await or to its return; other calls of connect() may have run meanwhile.
\* The collaborator outcomes are those that let the call reach this await;
\* it returns when a step raises before the next await or none is left.
DispatcherResume ==
  /\ \E p \in BagToSet(pending) :
       LET pts == Awaits[chain, account][p.iface]
           prev == IF p.at = 1 THEN 0 ELSE pts[p.at - 1]
       IN  \E run \in Runs[chain, account][p.iface] :
             /\ run.raised = 0 \/ run.raised > prev
             /\ IF p.at = Len(pts) \/ (run.raised # 0 /\ run.raised < pts[p.at + 1])
                THEN /\ sink' = sink \o run.out.writes
                     /\ last' = [iface |-> run.iface, env |-> run.env, out |-> run.out]
                     /\ invocations' = invocations + 1
                     /\ pending' = pending (-) SetToBag({p})
                ELSE /\ pending' = (pending (-) SetToBag({p}))
                                     (+) SetToBag({Suspended(p.iface, p.at + 1)})
                     /\ UNCHANGED <<sink, last, invocations>>
  /\ UNCHANGED <<chain, privateKey, account>>
  /\ UNCHANGED managerVars
  /\ UNCHANGED robotVars
  /\ UNCHANGED detectorVars
  /\ UNCHANGED scanVars
  /\ UNCHANGED browserVars

(***************************************************************************)
(* WalletManager: the user role.                                           *)
(***************************************************************************)
NoWalletInfo ==
  [some |-> FALSE, address |-> <<>>, chain_id |-> 0, balance |-> NoNum,
   provider_name |-> "unknown"]

\* set_wallet_info dropping the balance it is given.
SetWalletInfoNoBalance(address, chain_id, balance) ==
  [some |-> TRUE, address |-> address, chain_id |-> chain_id, balance |-> NoNum,
   provider_name |-> "user_browser"]

\* UserWalletProvider.set_wallet_info
SetWalletInfo(address, chain_id, balance) ==
  [some |-> TRUE, address |-> address, chain_id |-> chain_id, balance |-> balance,
   provider_name |-> "user_browser"]

\* The provenance guard shared by process_user_signature and
\* process_user_transaction: "ok", the error it returns, or "raised" when
\* the connected flag is set and no wallet info is held.
ProvenanceCheck(connected, info, from_address) ==
  IF ~connected THEN "not_connected"
  ELSE IF ~info.some THEN "raised"
  ELSE IF Lower(info.address) # Lower(from_address) THEN "address_mismatch"
  ELSE "ok"

\* process_user_signature
ProcessUserSignature(connected, info, message, signature, from_address) ==
  LET g == ProvenanceCheck(connected, info, from_address)
  IN  IF g = "not_connected"
      THEN [status |-> "error", message |-> "User wallet not connected", data |-> <<>>]
      ELSE IF g = "raised"
      THEN [status |-> "raised", message |-> "AttributeError", data |-> <<>>]
      ELSE IF g = "address_mismatch"
      THEN [status |-> "error",
            message |-> "Signature address does not match connected wallet",
            data |-> <<>>]
      ELSE [status |-> "success", message |-> "Signature verified and processed",
            data |-> <<from_address, message, signature>>]

\* process_user_transaction
ProcessUserTransaction(connected, info, from_address, to_address, amount, tx_hash) ==
  LET g == ProvenanceCheck(connected, info, from_address)
  IN  IF g = "not_connected"
      THEN [status |-> "error", message |-> "User wallet not connected", data |-> <<>>]
      ELSE IF g = "raised"
      THEN [status |-> "raised", message |-> "AttributeError", data |-> <<>>]
      ELSE IF g = "address_mismatch"
      THEN [status |-> "error",
            message |-> "Transaction address does not match connected wallet",
            data |-> <<>>]
      ELSE [status |-> "success", message |-> "Transaction verified and processed",
            data |-> <<from_address, to_address, amount, tx_hash>>]

\* Inputs of the manager's user operations.
UserAddresses == {<<"0","x","a","b">>, <<"0","x","A","B">>, <<"0","X","a","b">>, <<"0","x","c","d">>, <<"0","x","a">>}
ChainIds == {1, 84532}
Balances == {NoNum, SomeNum(5)}
Messages == {<<"h","i">>, <<"a",":","b">>}
Signatures == {<<"0","x","5","f">>}
TxHashes == {<<"0","x","7","e">>}
TxAmounts == {0, 2}

NoManagerOp == [op |-> "none", args |-> <<>>, result |-> [status |-> "none", message |-> "", data |-> <<>>]]

\* How an operation ended: "returned", the status of the result it returned,
\* or the type of the exception it raised.
Ended(call) ==
  [op |-> call.op,
   how |-> IF "status" \in DOMAIN call.result THEN call.result.status
           ELSE IF call.result.raised.type = "none" THEN "returned"
           ELSE call.result.raised.type]

ManagerInit ==
  /\ robot_connected = FALSE
  /\ user_connected = FALSE
  /\ user_wallet_info = NoWalletInfo
  /\ mgr_ops = 0
  /\ mgr_last = NoManagerOp
  /\ mgr_trace = <<>>
  /\ robot_account = FALSE
  /\ robot_w3 = FALSE

\* connect_user_wallet(address, chain_id, balance)
ConnectUserWallet ==
  /\ mgr_ops < MaxManagerOps
  /\ \E address \in UserAddresses, chain_id \in ChainIds, balance \in Balances :
       /\ user_wallet_info' = SetWalletInfo(address, chain_id, balance)
       /\ mgr_last' = [op |-> "connect_user_wallet",
                       args |-> <<address, chain_id, balance>>,
                       result |-> [status |-> "returned", message |-> "", data |-> <<>>]]
  /\ user_connected' = TRUE
  /\ mgr_ops' = mgr_ops + 1
  /\ mgr_trace' = Append(mgr_trace, Ended(mgr_last'))
  /\ UNCHANGED robot_connected
  /\ UNCHANGED robotVars
  /\ UNCHANGED dispatchVars
  /\ UNCHANGED detectorVars
  /\ UNCHANGED scanVars
  /\ UNCHANGED browserVars

\* disconnect_user_wallet() disconnecting the robot role along with the user's.
DisconnectBothWallets ==
  /\ mgr_ops < MaxManagerOps
  /\ user_wallet_info' = NoWalletInfo
  /\ user_connected' = FALSE
  /\ robot_connected' = FALSE
  /\ mgr_last' = [op |-> "disconnect_user_wallet", args |-> <<>>,
                  result |-> [status |-> "returned", message |-> "", data |-> <<>>]]
  /\ mgr_ops' = mgr_ops + 1
  /\ mgr_trace' = Append(mgr_trace, Ended(mgr_last'))
  /\ UNCHANGED robotVars
  /\ UNCHANGED dispatchVars
  /\ UNCHANGED detectorVars
  /\ UNCHANGED scanVars
  /\ UNCHANGED browserVars

\* disconnect_user_wallet(): UserWalletProvider.disconnect, then the flag.
DisconnectUserWallet ==
  /\ mgr_ops < MaxManagerOps
  /\ user_wallet_info' = NoWalletInfo
  /\ user_connected' = FALSE
  /\ mgr_last' = [op |-> "disconnect_user_wallet", args |-> <<>>,
                  result |-> [status |-> "returned", message |-> "", data |-> <<>>]]
  /\ mgr_ops' = mgr_ops + 1
  /\ mgr_trace' = Append(mgr_trace, Ended(mgr_last'))
  /\ UNCHANGED robot_connected
  /\ UNCHANGED robotVars
  /\ UNCHANGED dispatchVars
  /\ UNCHANGED detectorVars
  /\ UNCHANGED scanVars
  /\ UNCHANGED browserVars

\* process_user_signature(message, signature, from_address)
UserSignature ==
  /\ mgr_ops < MaxManagerOps
  /\ \E message \in Messages, signature \in Signatures, from_address \in UserAddresses :
       mgr_last' = [op |-> "process_user_signature",
                    args |-> <<from_address, message, signature>>,
                    result |-> ProcessUserSignature(user_connected, user_wallet_info,
                                                    message, signature, from_address)]
  /\ mgr_ops' = mgr_ops + 1
  /\ mgr_trace' = Append(mgr_trace, Ended(mgr_last'))
  /\ UNCHANGED <<robot_connected, user_connected, user_wallet_info>>
  /\ UNCHANGED robotVars
  /\ UNCHANGED dispatchVars
  /\ UNCHANGED detectorVars
  /\ UNCHANGED scanVars
  /\ UNCHANGED browserVars

\* process_user_transaction(from_address, to_address, amount, tx_hash)
UserTransaction ==
  /\ mgr_ops < MaxManagerOps
  /\ \E from_address \in UserAddresses, to_address \in UserAddresses,
        amount \in TxAmounts, tx_hash \in TxHashes :
       mgr_last' = [op |-> "process_user_transaction",
                    args |-> <<from_address, to_address, amount, tx_hash>>,
                    result |-> ProcessUserTransaction(user_connected, user_wallet_info,
                                                      from_address, to_address, amount, tx_hash)]
  /\ mgr_ops' = mgr_ops + 1
  /\ mgr_trace' = Append(mgr_trace, Ended(mgr_last'))
  /\ UNCHANGED <<robot_connected, user_connected, user_wallet_info>>
  /\ UNCHANGED robotVars
  /\ UNCHANGED dispatchVars
  /\ UNCHANGED detectorVars
  /\ UNCHANGED scanVars
  /\ UNCHANGED browserVars

(***************************************************************************)
(* The providers.  A call either returns a value or raises; "calls" lists  *)
(* the rpc requests it issued, oldest first.                               *)
(***************************************************************************)
NoError == [type |-> "none", msg |-> ""]
Error(type, msg) == [type |-> type, msg |-> msg]

Returned(value, calls) == [raised |-> NoError, value |-> value, calls |-> calls]
Raised(type, msg, calls) == [raised |-> Error(type, msg), value |-> <<>>, calls |-> calls]

\* The address Account.from_key derives from the robot's key.
RobotAddress == <<"0","x","a","b">>

\* CoinbaseProvider.connect.  key is the setting of ETH_PRIVATE_KEY when the
\* call is made, failAt the rpc request the endpoint fails (0: none,
\* 1: get_balance, 2: chain_id).  The fields account and w3 are the
\* provider's attributes when the call ends.
CoinbaseConnect(acct, w3, key, failAt, balance, chain_id) ==
  IF key = "absent"
  THEN [account |-> acct, w3 |-> w3,
        out |-> Raised("ValueError", "ETH_PRIVATE_KEY environment variable is not set", <<>>)]
  ELSE IF key = "invalid"
  THEN [account |-> acct, w3 |-> TRUE, out |-> Raised("Exception", "from_key", <<>>)]
  ELSE IF failAt = 1
  THEN [account |-> TRUE, w3 |-> TRUE,
        out |-> Raised("ConnectionError", "get_balance", <<"get_balance">>)]
  ELSE IF failAt = 2
  THEN [account |-> TRUE, w3 |-> TRUE,
        out |-> Raised("ConnectionError", "chain_id", <<"get_balance", "chain_id">>)]
  ELSE [account |-> TRUE, w3 |-> TRUE,
        out |-> Returned([some |-> TRUE, address |-> RobotAddress, chain_id |-> chain_id,
                          balance |-> SomeNum(balance), provider_name |-> "coinbase"],
                         <<"get_balance", "chain_id">>)]

\* What a coroutine that has reached its await gives for the time being: the
\* call is suspended in run_in_executor and nothing has been returned.
AtAwait == [raised |-> NoError, value |-> <<"run_in_executor">>, calls |-> <<>>]

\* get_balance going to the endpoint although no web3 client is held.
CoinbaseGetBalanceUnguarded(w3, address) == AtAwait

\* CoinbaseProvider.get_balance up to its await.
CoinbaseGetBalance(w3, address) ==
  IF ~w3 THEN Raised("RuntimeError", "Wallet not connected", <<>>)
  ELSE AtAwait

\* CoinbaseProvider.get_balance from the return of run_in_executor on:
\* float(self.w3.from_wei(balance_wei, 'ether')) with the w3 of that moment.
CoinbaseGetBalanceReply(w3, fail, balance) ==
  IF fail THEN Raised("ConnectionError", "get_balance", <<"get_balance">>)
  ELSE IF ~w3 THEN Raised("AttributeError", "from_wei", <<"get_balance">>)
  ELSE Returned(balance, <<"get_balance">>)

\* CoinbaseProvider.sign_message up to its await: the bound method
\* self.account.sign_message is handed to the executor.
CoinbaseSignMessage(acct, message) ==
  IF ~acct THEN Raised("RuntimeError", "Wallet not connected", <<>>)
  ELSE AtAwait

\* CoinbaseProvider.sign_message from the return of run_in_executor on: the
\* account bound before the await signed locally, no rpc request, and no
\* attribute of the provider is read again.
CoinbaseSignMessageReply(message) ==
  Returned(<<"signature", RobotAddress, message>>, <<>>)

\* CoinbaseProvider.send_transaction up to its await.
CoinbaseSendTransaction(acct, w3, to_address, amount, data) ==
  IF ~acct \/ ~w3 THEN Raised("RuntimeError", "Wallet not connected", <<>>)
  ELSE AtAwait

\* CoinbaseProvider.send_transaction from the return of run_in_executor on.
\* The steps of _build_and_send_tx are those of the connector's transfer and
\* every one of them reads self.w3 or self.account in the executor thread:
\* cut is the step that found the attribute set to None by a disconnect made
\* meanwhile (0: none).  The hash is returned whatever the status of the
\* receipt.
CoinbaseSendTransactionReply(to_address, amount, data, env, cut) ==
  LET r == FirstRaise("evm", to_address, amount, env.failAt)
  IN  IF cut # 0 /\ (r = 0 \/ cut <= r)
      THEN Raised("AttributeError", EvmTransferSteps[cut].name,
                  RpcCalls(EvmTransferSteps, cut - 1))
      ELSE IF r # 0
      THEN Raised("Exception", EvmTransferSteps[r].name, RpcCalls(EvmTransferSteps, r))
      ELSE Returned(<<"tx", to_address, amount, data>>,
                    RpcCalls(EvmTransferSteps, Len(EvmTransferSteps)))

\* CoinbaseProvider.disconnect
CoinbaseDisconnect == [account |-> FALSE, w3 |-> FALSE]

\* UserWalletProvider.connect
UserConnect(info) ==
  IF ~info.some
  THEN Raised("RuntimeError", "User wallet not connected. Connection must happen in browser.", <<>>)
  ELSE Returned(info, <<>>)

\* UserWalletProvider.get_balance
UserGetBalance(info, address) ==
  IF ~info.some THEN Raised("RuntimeError", "User wallet not connected", <<>>)
  ELSE IF ~info.balance.some THEN Returned(0, <<>>)
  ELSE Returned(info.balance.val, <<>>)

\* sign_message allowed once a wallet is mirrored.
UserSignMessageWhenConnected(info, message) ==
  IF info.some THEN Returned(<<"signature", info.address, message>>, <<>>)
  ELSE Raised("NotImplementedError", "User wallet signing must happen in the browser.", <<>>)

\* UserWalletProvider.sign_message
UserSignMessage(info, message) ==
  Raised("NotImplementedError", "User wallet signing must happen in the browser.", <<>>)

\* UserWalletProvider.send_transaction
UserSendTransaction(info, to_address, amount, data) ==
  Raised("NotImplementedError", "User wallet transactions must happen in the browser.", <<>>)

(***************************************************************************)
(* WalletManager: the robot role.  A result carries what the provider      *)
(* call gave and whether the provider was called at all.                   *)
(***************************************************************************)
RobotNotConnected ==
  [raised |-> Error("RuntimeError", "Robot wallet not connected"),
   value |-> <<>>, calls |-> <<>>, invoked |-> FALSE]

Delegated(out) ==
  [raised |-> out.raised, value |-> out.value, calls |-> out.calls, invoked |-> TRUE]

\* connect_robot_wallet recording the flag before the provider has connected.
ConnectRobotFlagFirst(connected, acct, w3, key, failAt, balance, chain_id) ==
  LET c == CoinbaseConnect(acct, w3, key, failAt, balance, chain_id)
  IN  [connected |-> TRUE, account |-> c.account, w3 |-> c.w3, result |-> Delegated(c.out)]

\* connect_robot_wallet: the flag is assigned after connect() has returned.
ConnectRobot(connected, acct, w3, key, failAt, balance, chain_id) ==
  LET c == CoinbaseConnect(acct, w3, key, failAt, balance, chain_id)
  IN  [connected |-> IF c.out.raised = NoError THEN TRUE ELSE connected,
       account |-> c.account, w3 |-> c.w3, result |-> Delegated(c.out)]

\* robot_sign_message guarded by the provider's account, not by the flag.
RobotSignMessageByAccount(connected, acct, message) ==
  IF ~acct THEN RobotNotConnected
  ELSE Delegated(CoinbaseSignMessage(acct, message))

\* robot_sign_message up to the await inside the provider.
RobotSignMessage(connected, acct, message) ==
  IF ~connected THEN RobotNotConnected
  ELSE Delegated(CoinbaseSignMessage(acct, message))

\* robot_send_transaction up to the await inside the provider.
RobotSendTransaction(connected, acct, w3, to_address, amount, data) ==
  IF ~connected THEN RobotNotConnected
  ELSE Delegated(CoinbaseSendTransaction(acct, w3, to_address, amount, data))

\* robot_get_balance up to the await inside the provider.
RobotGetBalance(connected, w3, address) ==
  IF ~connected THEN RobotNotConnected
  ELSE Delegated(CoinbaseGetBalance(w3, address))

\* Inputs of the robot operations and answers of the endpoint.
KeySettings == {"absent", "invalid", "valid"}
ConnectFailures == {0, 1, 2}
RobotBalances == {0, 5}
RobotChainId == 84532
BalanceAddresses == {RobotAddress, <<"0","x","c","d">>}
SendAddresses == {<<"a","b">>, <<"z","z">>}
SendAmounts == {Float(1), Float(0 - 1)}
SendData == {NoStr, SomeStr(<<"0","x">>)}

\* The endpoint outcomes that can be told apart for a connect with this key.
ConnectEnvs(key) ==
  IF key = "valid"
  THEN {[failAt |-> f, balance |-> b] : f \in ConnectFailures, b \in RobotBalances}
  ELSE {[failAt |-> 0, balance |-> 0]}

\* connect_robot_wallet()
ConnectRobotWallet ==
  /\ mgr_ops < MaxManagerOps
  /\ \E key \in KeySettings : \E e \in ConnectEnvs(key) :
       LET r == ConnectRobot(robot_connected, robot_account, robot_w3,
                             key, e.failAt, e.balance, RobotChainId)
       IN  /\ robot_connected' = r.connected
           /\ robot_account' = r.account
           /\ robot_w3' = r.w3
           /\ mgr_last' = [op |-> "connect_robot_wallet", args |-> <<key, e>>,
                           result |-> r.result]
  /\ mgr_ops' = mgr_ops + 1
  /\ mgr_trace' = Append(mgr_trace, Ended(mgr_last'))
  /\ UNCHANGED <<user_connected, user_wallet_info>>
  /\ UNCHANGED dispatchVars
  /\ UNCHANGED detectorVars
  /\ UNCHANGED scanVars
  /\ UNCHANGED browserVars

\* disconnect_robot_wallet() leaving the provider as it was.
DisconnectRobotWalletFlagOnly ==
  /\ mgr_ops < MaxManagerOps
  /\ robot_connected' = FALSE
  /\ mgr_last' = [op |-> "disconnect_robot_wallet", args |-> <<>>,
                  result |-> Delegated(Returned(<<>>, <<>>))]
  /\ mgr_ops' = mgr_ops + 1
  /\ mgr_trace' = Append(mgr_trace, Ended(mgr_last'))
  /\ UNCHANGED <<robot_account, robot_w3, user_connected, user_wallet_info>>
  /\ UNCHANGED dispatchVars
  /\ UNCHANGED detectorVars
  /\ UNCHANGED scanVars
  /\ UNCHANGED browserVars

\* disconnect_robot_wallet(): CoinbaseProvider.disconnect, then the flag.
DisconnectRobotWallet ==
  /\ mgr_ops < MaxManagerOps
  /\ robot_account' = CoinbaseDisconnect.account
  /\ robot_w3' = CoinbaseDisconnect.w3
  /\ robot_connected' = FALSE
  /\ mgr_last' = [op |-> "disconnect_robot_wallet", args |-> <<>>,
                  result |-> Delegated(Returned(<<>>, <<>>))]
  /\ mgr_ops' = mgr_ops + 1
  /\ mgr_trace' = Append(mgr_trace, Ended(mgr_last'))
  /\ UNCHANGED <<user_connected, user_wallet_info>>
  /\ UNCHANGED dispatchVars
  /\ UNCHANGED detectorVars
  /\ UNCHANGED scanVars
  /\ UNCHANGED browserVars

(***************************************************************************)
(* Operations suspended at an await.  While a coroutine waits for the      *)
(* reply of a call every other task of the event loop can run.             *)
(***************************************************************************)
\* A call a coroutine awaits: its task, how many operations the manager had
\* ended, whether the robot role was connected and whether the provider held
\* an account when it was issued, and its argument.
Waiting(task, arg) ==
  [task |-> task, since |-> Len(mgr_trace), connected |-> robot_connected,
   account |-> robot_account, arg |-> arg]

WaitingFor(task) == {w \in rpc_wait : w.task = task}

\* An operation of the robot role or of its provider from its call to its
\* first await, or to its end when it ends before: begun is what the part
\* before the await gave.  One call of an operation is followed at a time.
RobotCall(op, arg, args, begun) ==
  /\ mgr_ops < MaxManagerOps
  /\ WaitingFor(op) = {}
  /\ IF begun.raised = NoError
     THEN /\ rpc_wait' = rpc_wait \cup {Waiting(op, arg)}
          /\ UNCHANGED <<mgr_last, mgr_trace>>
     ELSE /\ mgr_last' = [op |-> op, args |-> args, result |-> begun,
                          at |-> Waiting(op, arg)]
          /\ mgr_trace' = Append(mgr_trace, Ended(mgr_last'))
          /\ UNCHANGED rpc_wait
  /\ mgr_ops' = mgr_ops + 1
  /\ UNCHANGED <<robot_connected, user_connected, user_wallet_info>>
  /\ UNCHANGED robotVars
  /\ UNCHANGED dispatchVars
  /\ UNCHANGED detectorVars
  /\ UNCHANGED <<sol_account, SOL_balance, SOL_balance_previous, last_signature, history,
                 arrivals, scan_last>>
  /\ UNCHANGED browserVars

\* The same operation from the return of run_in_executor to its own return.
RobotReply(w, args, out) ==
  /\ mgr_last' = [op |-> w.task, args |-> args, result |-> Delegated(out), at |-> w]
  /\ rpc_wait' = rpc_wait \ {w}
  /\ mgr_trace' = Append(mgr_trace, Ended(mgr_last'))
  /\ UNCHANGED <<robot_connected, user_connected, user_wallet_info, mgr_ops>>
  /\ UNCHANGED robotVars
  /\ UNCHANGED dispatchVars
  /\ UNCHANGED detectorVars
  /\ UNCHANGED <<sol_account, SOL_balance, SOL_balance_previous, last_signature, history,
                 arrivals, scan_last>>
  /\ UNCHANGED browserVars

\* robot_sign_message(message) up to the await of run_in_executor.
RobotSignCall ==
  \E message \in Messages :
    RobotCall("robot_sign_message", message, <<message>>,
              RobotSignMessage(robot_connected, robot_account, message))

\* robot_sign_message(message) from the return of the executor on.
RobotSignReply ==
  \E w \in WaitingFor("robot_sign_message") :
    RobotReply(w, <<w.arg>>, CoinbaseSignMessageReply(w.arg))

\* The endpoint outcomes that can be told apart for a send of these
\* arguments: a step after one that raises on the arguments is never reached.
SendEnvs(to_address, amount) ==
  LET r == FirstRaise("evm", to_address, amount, 0)
  IN  {Env(i, "none") : i \in {j \in FallibleSteps("evm") : r = 0 \/ j < r}}
        \cup {Env(0, "none")}

\* The provider was disconnected after this call was issued.
DisconnectedDuring(w) ==
  \E i \in (w.since + 1)..Len(mgr_trace) :
    mgr_trace[i].op \in {"disconnect_robot_wallet", "robot_wallet.disconnect"}

\* What the executor thread of a send can meet: an outcome of the endpoint
\* or, when a disconnect ran beside the thread, the attribute it reads at
\* any one of its steps set to None.
SendRuns(w) ==
  {[env |-> e, cut |-> 0] : e \in SendEnvs(w.arg[1], w.arg[2])} \cup
  {[env |-> Env(0, "none"), cut |-> c] :
     c \in IF DisconnectedDuring(w) THEN 1..Len(EvmTransferSteps) ELSE {}}

\* robot_send_transaction(to_address, amount, data) up to the await.
RobotSendCall ==
  \E to_address \in SendAddresses, amount \in SendAmounts, data \in SendData :
    RobotCall("robot_send_transaction", <<to_address, amount, data>>,
              <<to_address, amount, data, [env |-> Env(0, "none"), cut |-> 0]>>,
              RobotSendTransaction(robot_connected, robot_account, robot_w3,
                                   to_address, amount, data))

\* robot_send_transaction from the return of the executor on.
RobotSendReply ==
  \E w \in WaitingFor("robot_send_transaction") : \E run \in SendRuns(w) :
    RobotReply(w, Append(w.arg, run),
               CoinbaseSendTransactionReply(w.arg[1], w.arg[2], w.arg[3], run.env, run.cut))

\* The endpoint outcomes that can be told apart for a balance request.
BalanceEnvs ==
  {[fail |-> TRUE, balance |-> 0]} \cup {[fail |-> FALSE, balance |-> b] : b \in RobotBalances}

\* robot_get_balance(address) up to the await of run_in_executor; without a
\* connected role or a provider w3 it ends here.
RobotBalanceCall ==
  \E address \in BalanceAddresses :
    RobotCall("robot_get_balance", address, <<address, [fail |-> FALSE, balance |-> 0]>>,
              RobotGetBalance(robot_connected, robot_w3, address))

\* robot_get_balance(address) from the reply of the endpoint to its return.
RobotBalanceReply ==
  \E w \in WaitingFor("robot_get_balance") : \E e \in BalanceEnvs :
    RobotReply(w, <<w.arg, e>>, CoinbaseGetBalanceReply(robot_w3, e.fail, e.balance))

(***************************************************************************)
(* Calls made on the manager's provider objects themselves                 *)
(* (manager.robot_wallet, manager.user_wallet).                            *)
(***************************************************************************)
\* robot_wallet.connect(): the provider connects, the manager's flag is not
\* touched.
ProviderConnect ==
  /\ mgr_ops < MaxManagerOps
  /\ \E key \in KeySettings : \E e \in ConnectEnvs(key) :
       LET c == CoinbaseConnect(robot_account, robot_w3, key, e.failAt, e.balance,
                                RobotChainId)
       IN  /\ robot_account' = c.account
           /\ robot_w3' = c.w3
           /\ mgr_last' = [op |-> "robot_wallet.connect", args |-> <<key, e>>,
                           result |-> Delegated(c.out)]
  /\ mgr_ops' = mgr_ops + 1
  /\ mgr_trace' = Append(mgr_trace, Ended(mgr_last'))
  /\ UNCHANGED <<robot_connected, user_connected, user_wallet_info>>
  /\ UNCHANGED dispatchVars
  /\ UNCHANGED detectorVars
  /\ UNCHANGED scanVars
  /\ UNCHANGED browserVars

\* robot_wallet.disconnect()
ProviderDisconnect ==
  /\ mgr_ops < MaxManagerOps
  /\ robot_account' = CoinbaseDisconnect.account
  /\ robot_w3' = CoinbaseDisconnect.w3
  /\ mgr_last' = [op |-> "robot_wallet.disconnect", args |-> <<>>,
                  result |-> Delegated(Returned(<<>>, <<>>))]
  /\ mgr_ops' = mgr_ops + 1
  /\ mgr_trace' = Append(mgr_trace, Ended(mgr_last'))
  /\ UNCHANGED <<robot_connected, user_connected, user_wallet_info>>
  /\ UNCHANGED dispatchVars
  /\ UNCHANGED detectorVars
  /\ UNCHANGED scanVars
  /\ UNCHANGED browserVars

\* robot_wallet.get_balance(address) up to its await.
ProviderGetBalanceCall ==
  \E address \in BalanceAddresses :
    RobotCall("robot_wallet.get_balance", address,
              <<address, [fail |-> FALSE, balance |-> 0]>>,
              Delegated(CoinbaseGetBalance(robot_w3, address)))

\* robot_wallet.get_balance(address) from the reply of the endpoint on.
ProviderGetBalanceReply ==
  \E w \in WaitingFor("robot_wallet.get_balance") : \E e \in BalanceEnvs :
    RobotReply(w, <<w.arg, e>>, CoinbaseGetBalanceReply(robot_w3, e.fail, e.balance))

\* robot_wallet.sign_message(message) up to its await.
ProviderSignCall ==
  \E message \in Messages :
    RobotCall("robot_wallet.sign_message", message, <<message>>,
              Delegated(CoinbaseSignMessage(robot_account, message)))

\* robot_wallet.sign_message(message) from the return of the executor on.
ProviderSignReply ==
  \E w \in WaitingFor("robot_wallet.sign_message") :
    RobotReply(w, <<w.arg>>, CoinbaseSignMessageReply(w.arg))

\* robot_wallet.send_transaction(to_address, amount, data) up to its await.
ProviderSendCall ==
  \E to_address \in SendAddresses, amount \in SendAmounts, data \in SendData :
    RobotCall("robot_wallet.send_transaction", <<to_address, amount, data>>,
              <<to_address, amount, data, [env |-> Env(0, "none"), cut |-> 0]>>,
              Delegated(CoinbaseSendTransaction(robot_account, robot_w3,
                                                to_address, amount, data)))

\* robot_wallet.send_transaction from the return of the executor on.
ProviderSendReply ==
  \E w \in WaitingFor("robot_wallet.send_transaction") : \E run \in SendRuns(w) :
    RobotReply(w, Append(w.arg, run),
               CoinbaseSendTransactionReply(w.arg[1], w.arg[2], w.arg[3], run.env, run.cut))

\* user_wallet.connect()
UserProviderConnect ==
  /\ mgr_ops < MaxManagerOps
  /\ mgr_last' = [op |-> "user_wallet.connect", args |-> <<>>,
                  result |-> Delegated(UserConnect(user_wallet_info))]
  /\ mgr_ops' = mgr_ops + 1
  /\ mgr_trace' = Append(mgr_trace, Ended(mgr_last'))
  /\ UNCHANGED <<robot_connected, user_connected, user_wallet_info>>
  /\ UNCHANGED robotVars
  /\ UNCHANGED dispatchVars
  /\ UNCHANGED detectorVars
  /\ UNCHANGED scanVars
  /\ UNCHANGED browserVars

\* user_wallet.get_balance(address)
UserProviderGetBalance ==
  /\ mgr_ops < MaxManagerOps
  /\ \E address \in BalanceAddresses :
       mgr_last' = [op |-> "user_wallet.get_balance", args |-> <<address>>,
                    result |-> Delegated(UserGetBalance(user_wallet_info, address))]
  /\ mgr_ops' = mgr_ops + 1
  /\ mgr_trace' = Append(mgr_trace, Ended(mgr_last'))
  /\ UNCHANGED <<robot_connected, user_connected, user_wallet_info>>
  /\ UNCHANGED robotVars
  /\ UNCHANGED dispatchVars
  /\ UNCHANGED detectorVars
  /\ UNCHANGED scanVars
  /\ UNCHANGED browserVars

\* user_wallet.sign_message(message)
UserProviderSign ==
  /\ mgr_ops < MaxManagerOps
  /\ \E message \in Messages :
       mgr_last' = [op |-> "user_wallet.sign_message", args |-> <<message>>,
                    result |-> Delegated(UserSignMessage(user_wallet_info, message))]
  /\ mgr_ops' = mgr_ops + 1
  /\ mgr_trace' = Append(mgr_trace, Ended(mgr_last'))
  /\ UNCHANGED <<robot_connected, user_connected, user_wallet_info>>
  /\ UNCHANGED robotVars
  /\ UNCHANGED dispatchVars
  /\ UNCHANGED detectorVars
  /\ UNCHANGED scanVars
  /\ UNCHANGED browserVars

\* user_wallet.send_transaction(to_address, amount, data)
UserProviderSend ==
  /\ mgr_ops < MaxManagerOps
  /\ \E to_address \in SendAddresses, amount \in SendAmounts, data \in SendData :
       mgr_last' = [op |-> "user_wallet.send_transaction",
                    args |-> <<to_address, amount, data>>,
                    result |-> Delegated(UserSendTransaction(user_wallet_info, to_address,
                                                             amount, data))]
  /\ mgr_ops' = mgr_ops + 1
  /\ mgr_trace' = Append(mgr_trace, Ended(mgr_last'))
  /\ UNCHANGED <<robot_connected, user_connected, user_wallet_info>>
  /\ UNCHANGED robotVars
  /\ UNCHANGED dispatchVars
  /\ UNCHANGED detectorVars
  /\ UNCHANGED scanVars
  /\ UNCHANGED browserVars

\* user_wallet.set_wallet_info(address, chain_id, balance) on the manager's
\* provider: the wallet info is replaced, the manager's flag is not touched.
UserProviderSetWalletInfo ==
  /\ mgr_ops < MaxManagerOps
  /\ \E address \in UserAddresses, chain_id \in ChainIds, balance \in Balances :
       /\ user_wallet_info' = SetWalletInfo(address, chain_id, balance)
       /\ mgr_last' = [op |-> "user_wallet.set_wallet_info",
                       args |-> <<address, chain_id, balance>>,
                       result |-> Delegated(Returned(<<>>, <<>>))]
  /\ mgr_ops' = mgr_ops + 1
  /\ mgr_trace' = Append(mgr_trace, Ended(mgr_last'))
  /\ UNCHANGED <<robot_connected, user_connected>>
  /\ UNCHANGED robotVars
  /\ UNCHANGED dispatchVars
  /\ UNCHANGED detectorVars
  /\ UNCHANGED scanVars
  /\ UNCHANGED browserVars

\* user_wallet.disconnect() on the manager's provider: the wallet info is
\* dropped, the manager's flag is not touched.
UserProviderDisconnect ==
  /\ mgr_ops < MaxManagerOps
  /\ user_wallet_info' = NoWalletInfo
  /\ mgr_last' = [op |-> "user_wallet.disconnect", args |-> <<>>,
                  result |-> Delegated(Returned(<<>>, <<>>))]
  /\ mgr_ops' = mgr_ops + 1
  /\ mgr_trace' = Append(mgr_trace, Ended(mgr_last'))
  /\ UNCHANGED <<robot_connected, user_connected>>
  /\ UNCHANGED robotVars
  /\ UNCHANGED dispatchVars
  /\ UNCHANGED detectorVars
  /\ UNCHANGED scanVars
  /\ UNCHANGED browserVars

(***************************************************************************)
(* The balance detector of WalletCoinbase and its notification buffer.     *)
(* Amounts are whole numbers of millionths of the asset; the text of an    *)
(* amount printed with five decimals is its number of hundred-thousandths. *)
(***************************************************************************)
\* f"{x:.5f}" for x >= 0: the nearest hundred-thousandth (the amounts drawn
\* below never lie half-way between two).
Format5(x) == (x + 5) \div 10

\* float(text) of a text with five decimals.
FloatOf(text) == text * 10

RECURSIVE SumOf(_)
SumOf(s) == IF s = <<>> THEN 0 ELSE s[1] + SumOf(Tail(s))

NoMessage == [some |-> FALSE, timestamp |-> 0, message |-> 0]
Message(timestamp, message) == [some |-> TRUE, timestamp |-> timestamp, message |-> message]

\* _poll storing the fetched balance as previous only when it has grown.
DeltaPollKeepsPrevious(acct, balance, previous, fetch) ==
  IF ~acct
  THEN [balance |-> balance, previous |-> previous,
        raw |-> [current |-> balance, change |-> 0], calls |-> <<>>]
  ELSE IF ~fetch.ok
  THEN [balance |-> balance, previous |-> previous,
        raw |-> [current |-> balance, change |-> 0], calls |-> <<"get_balance">>]
  ELSE [balance |-> fetch.value,
        previous |-> IF fetch.value > previous THEN fetch.value ELSE previous,
        raw |-> [current |-> fetch.value, change |-> fetch.value - previous],
        calls |-> <<"get_balance">>]

\* _poll taking the balance for zero when the request fails.
DeltaPollResetsOnFailure(acct, balance, previous, fetch) ==
  IF ~acct
  THEN [balance |-> balance, previous |-> previous,
        raw |-> [current |-> balance, change |-> 0], calls |-> <<>>]
  ELSE IF ~fetch.ok
  THEN [balance |-> 0, previous |-> 0,
        raw |-> [current |-> 0, change |-> 0], calls |-> <<"get_balance">>]
  ELSE [balance |-> fetch.value, previous |-> fetch.value,
        raw |-> [current |-> fetch.value, change |-> fetch.value - previous],
        calls |-> <<"get_balance">>]

\* WalletCoinbase._poll; fetch is the answer of w3.eth.get_balance.
DeltaPoll(acct, balance, previous, fetch) ==
  IF ~acct
  THEN [balance |-> balance, previous |-> previous,
        raw |-> [current |-> balance, change |-> 0], calls |-> <<>>]
  ELSE IF ~fetch.ok
  THEN [balance |-> balance, previous |-> previous,
        raw |-> [current |-> balance, change |-> 0], calls |-> <<"get_balance">>]
  ELSE [balance |-> fetch.value, previous |-> fetch.value,
        raw |-> [current |-> fetch.value, change |-> fetch.value - previous],
        calls |-> <<"get_balance">>]

\* _raw_to_text: the message for a raw input, none unless the change is positive.
RawToTextMessage(raw_input, time) ==
  IF raw_input.change > 0 THEN Message(time, Format5(raw_input.change))
  ELSE NoMessage

\* raw_to_text putting the message in place of the buffered ones.
BufferReplace(msgs, entry) == <<entry>>

\* raw_to_text: self.messages.append(pending_message)
BufferAppend(msgs, entry) == Append(msgs, entry)

\* formatted_latest_buffer leaving the buffer as it found it.
FormatBufferNoClear(msgs, label) ==
  IF Len(msgs) = 0
  THEN [messages |-> msgs, writes |-> <<>>, result |-> NoMessage]
  ELSE LET transaction_sum == SumOf([i \in 1..Len(msgs) |-> FloatOf(msgs[i].message)])
           result_message == Message(msgs[Len(msgs)].timestamp, Format5(transaction_sum))
       IN  [messages |-> msgs,
            writes |-> << [label |-> label, message |-> result_message.message,
                           timestamp |-> result_message.timestamp] >>,
            result |-> result_message]

\* formatted_latest_buffer stamping its record with the first buffered entry.
FormatBufferStampsFirst(msgs, label) ==
  IF Len(msgs) = 0
  THEN [messages |-> msgs, writes |-> <<>>, result |-> NoMessage]
  ELSE LET transaction_sum == SumOf([i \in 1..Len(msgs) |-> FloatOf(msgs[i].message)])
           result_message == Message(msgs[1].timestamp, Format5(transaction_sum))
       IN  [messages |-> <<>>,
            writes |-> << [label |-> label, message |-> result_message.message,
                           timestamp |-> result_message.timestamp] >>,
            result |-> result_message]

\* formatted_latest_buffer: the buffer afterwards, the records added to the
\* IOProvider and the message returned (none for an empty buffer).
FormatBuffer(msgs, label) ==
  IF Len(msgs) = 0
  THEN [messages |-> msgs, writes |-> <<>>, result |-> NoMessage]
  ELSE LET transaction_sum == SumOf([i \in 1..Len(msgs) |-> FloatOf(msgs[i].message)])
           result_message == Message(msgs[Len(msgs)].timestamp, Format5(transaction_sum))
       IN  [messages |-> <<>>,
            writes |-> << [label |-> label, message |-> result_message.message,
                           timestamp |-> result_message.timestamp] >>,
            result |-> result_message]

\* Balances the chain can hold and answers of w3.eth.get_balance.
ChainBalances == {0, 4, 14, 28}

Fetches ==
  {[ok |-> FALSE, value |-> 0]} \cup {[ok |-> TRUE, value |-> b] : b \in ChainBalances}

\* The answers that can be told apart by a poll of this instance.
PollFetches(acct) == IF acct THEN Fetches ELSE {[ok |-> FALSE, value |-> 0]}

\* The listen loop between two polls; "polled" holds the raw input _poll
\* returned, "pending" the message _raw_to_text built and raw_to_text has not
\* appended yet.
IdleLoop == [pc |-> "idle", raw |-> [current |-> 0, change |-> 0], pending |-> NoMessage]

NoDetectorOp ==
  [op |-> "none", raw |-> IdleLoop.raw, result |-> NoMessage,
   before |-> [balance |-> 0, previous |-> 0], fetch |-> [ok |-> FALSE, value |-> 0]]

\* WalletCoinbase.__init__: the wallet is set up, and the first balance
\* fetched, only from a usable key and a reachable endpoint.
DetectorInit ==
  /\ \E key \in KeySettings, fetch \in Fetches :
       /\ det_account = (key = "valid" /\ fetch.ok)
       /\ ETH_balance = IF key = "valid" /\ fetch.ok THEN fetch.value ELSE 0
  /\ ETH_balance_previous = ETH_balance
  /\ messages = <<>>
  /\ det_sink = <<>>
  /\ det_loop = IdleLoop
  /\ now = 0
  /\ det_last = NoDetectorOp
  /\ det_trace = <<>>

\* A detector constructed without a key, never polled.
IdleDetector ==
  /\ det_account = FALSE
  /\ ETH_balance = 0
  /\ ETH_balance_previous = 0
  /\ messages = <<>>
  /\ det_sink = <<>>
  /\ det_loop = IdleLoop
  /\ now = 0
  /\ det_last = NoDetectorOp
  /\ det_trace = <<>>

\* One _poll of the listen loop, run to its return.
DetectorPoll ==
  /\ now < MaxClock
  /\ det_loop.pc = "idle"
  /\ \E fetch \in PollFetches(det_account) :
       LET r == DeltaPoll(det_account, ETH_balance, ETH_balance_previous, fetch)
       IN  /\ ETH_balance' = r.balance
           /\ ETH_balance_previous' = r.previous
           /\ det_loop' = [pc |-> "polled", raw |-> r.raw, pending |-> NoMessage]
           /\ det_last' = [op |-> "_poll", raw |-> r.raw, result |-> NoMessage,
                           before |-> [balance |-> ETH_balance,
                                       previous |-> ETH_balance_previous],
                           fetch |-> fetch]
  /\ now' = now + 1
  /\ UNCHANGED <<det_account, messages, det_sink, det_trace>>
  /\ UNCHANGED <<dispatchVars, managerVars, robotVars, scanVars>>
  /\ UNCHANGED browserVars

\* raw_to_text up to the return of "await self._raw_to_text(raw_input)".
RawToTextBegin ==
  /\ now < MaxClock
  /\ det_loop.pc = "polled"
  /\ LET m == RawToTextMessage(det_loop.raw, now)
     IN  /\ det_loop' = IF m.some
                        THEN [pc |-> "pending", raw |-> det_loop.raw, pending |-> m]
                        ELSE IdleLoop
         /\ det_last' = [NoDetectorOp EXCEPT !.op = "_raw_to_text", !.raw = det_loop.raw,
                                             !.result = m]
  /\ now' = now + 1
  /\ UNCHANGED <<det_account, ETH_balance, ETH_balance_previous, messages, det_sink,
                 det_trace>>
  /\ UNCHANGED <<dispatchVars, managerVars, robotVars, scanVars>>
  /\ UNCHANGED browserVars

\* raw_to_text from there on: self.messages.append(pending_message).
RawToTextAppend ==
  /\ now < MaxClock
  /\ det_loop.pc = "pending"
  /\ LET entry == [timestamp |-> det_loop.pending.timestamp,
                   message |-> det_loop.pending.message]
     IN  /\ messages' = BufferAppend(messages, entry)
         /\ det_trace' = Append(det_trace, [ev |-> "append", at |-> now,
                                            entries |-> <<entry>>,
                                            raws |-> <<det_loop.raw.change>>,
                                            amount |-> entry.message])
         /\ det_last' = [NoDetectorOp EXCEPT !.op = "raw_to_text", !.raw = det_loop.raw,
                                             !.result = det_loop.pending]
  /\ det_loop' = IdleLoop
  /\ now' = now + 1
  /\ UNCHANGED <<det_account, ETH_balance, ETH_balance_previous, det_sink>>
  /\ UNCHANGED <<dispatchVars, managerVars, robotVars, scanVars>>
  /\ UNCHANGED browserVars

\* The raw changes behind the entries appended since the last consumption.
RECURSIVE PendingRaws(_)
PendingRaws(trace) ==
  IF trace = <<>> \/ trace[Len(trace)].ev = "consume" THEN <<>>
  ELSE PendingRaws(SubSeq(trace, 1, Len(trace) - 1)) \o trace[Len(trace)].raws

\* formatted_latest_buffer() of the input named label, called by the consumer
\* of the input; the label is self.__class__.__name__.
ConsumeBuffer(label) ==
  /\ now < MaxClock
  /\ LET r == FormatBuffer(messages, label)
     IN  /\ messages' = r.messages
         /\ det_sink' = det_sink \o r.writes
         /\ det_last' = [NoDetectorOp EXCEPT !.op = "formatted_latest_buffer",
                                             !.result = r.result]
         /\ det_trace' = Append(det_trace, [ev |-> "consume", at |-> now,
                                            entries |-> messages,
                                            raws |-> PendingRaws(det_trace),
                                            amount |-> r.result.message])
  /\ now' = now + 1
  /\ UNCHANGED <<det_account, ETH_balance, ETH_balance_previous, det_loop>>
  /\ UNCHANGED <<dispatchVars, managerVars, robotVars, scanVars>>
  /\ UNCHANGED browserVars

\* WalletCoinbase.formatted_latest_buffer()
FormattedLatestBuffer == ConsumeBuffer("WalletCoinbase")

\* WalletSolana.formatted_latest_buffer()
SolanaFormattedLatestBuffer == ConsumeBuffer("WalletSolana")

(***************************************************************************)
(* The transaction-scan detector of WalletSolana.  A signature is the      *)
(* position of its transaction in the account's history, so a larger       *)
(* signature is a newer transaction.  Lamport amounts are multiples of a   *)
(* thousand, which makes their value in millionths of a SOL exact.         *)
(***************************************************************************)
\* get_signatures_for_address(self.pubkey, limit=10)
FetchLimit == 10

\* self.last_signature = None
NoSignature == 0

\* self.pubkey and the other accounts transactions name.
Pubkey == "tracked"
Payer == "payer"
Payee == "payee"

\* float(lamports) / 1_000_000_000, in millionths of a SOL.
LamportsToSol(lamports) == lamports \div (1000000000 \div 1000000)

\* A confirmed transaction as get_transaction returns it.
Transaction(keys, pre, post) ==
  [meta |-> TRUE, account_keys |-> keys, pre_balances |-> pre, post_balances |-> post]

\* The tracked account receives 50000 lamports.
Incoming == Transaction(<<Payer, Pubkey>>, <<900000, 100000>>, <<850000, 150000>>)
\* The tracked account pays 20000 lamports.
Outgoing == Transaction(<<Pubkey, Payee>>, <<100000, 0>>, <<80000, 20000>>)
\* The tracked account is named by the transaction and keeps its balance.
Untouched == Transaction(<<Payer, Pubkey, Payee>>, <<900000, 100000, 0>>,
                         <<880000, 100000, 20000>>)
\* The tracked account is not among the accounts of the transaction.
Foreign == Transaction(<<Payer, Payee>>, <<900000, 0>>, <<850000, 50000>>)

TransactionKinds == {Incoming, Outgoing, Untouched, Foreign}

\* More incoming transfers than one listing holds.
Burst == [i \in 1..(FetchLimit + 1) |-> Incoming]

\* account_keys.index(self.pubkey), 0 standing for ValueError.
RECURSIVE IndexOf(_, _, _)
IndexOf(keys, key, from) ==
  IF from > Len(keys) THEN 0
  ELSE IF keys[from] = key THEN from
  ELSE IndexOf(keys, key, from + 1)

\* post_balance - pre_balance of the tracked account, 0 when the account is
\* not found or the transaction carries no balances.
LamportsChange(tx, key) ==
  IF ~tx.meta \/ tx.post_balances = <<>> \/ tx.pre_balances = <<>> THEN 0
  ELSE LET account_index == IndexOf(tx.account_keys, key, 1)
       IN  IF account_index = 0 THEN 0
           ELSE IF account_index > Len(tx.pre_balances)
                   \/ account_index > Len(tx.post_balances) THEN 0
           ELSE tx.post_balances[account_index] - tx.pre_balances[account_index]

\* The balance of the tracked account the chain holds after a history.
RECURSIVE LamportsAfter(_)
LamportsAfter(h) ==
  IF h = <<>> THEN 100000
  ELSE LamportsAfter(SubSeq(h, 1, Len(h) - 1)) + LamportsChange(h[Len(h)], Pubkey)

\* The signatures get_signatures_for_address lists: the newest first, at
\* most FetchLimit of them.
Listing(h) ==
  [i \in 1..(IF Len(h) < FetchLimit THEN Len(h) ELSE FetchLimit) |-> Len(h) - i + 1]

\* The walk taking every listed signature as new.
NewSignaturesAll(signatures, cursor) == signatures

\* The walk of _poll over the listing, from the newest down to the cursor.
RECURSIVE NewSignatures(_, _)
NewSignatures(signatures, cursor) ==
  IF signatures = <<>> THEN <<>>
  ELSE IF cursor # NoSignature /\ Head(signatures) = cursor THEN <<>>
  ELSE <<Head(signatures)>> \o NewSignatures(Tail(signatures), cursor)

\* reversed(new_signatures)
Reversed(s) == [i \in 1..Len(s) |-> s[Len(s) - i + 1]]

\* What one transaction adds to balance_change: nothing when get_transaction
\* raises or has no value for the signature, else the change when positive.
SolChange(signature, h, env) ==
  IF env.failTx = signature THEN 0
  ELSE LET lamports_change == LamportsChange(h[signature], Pubkey)
       IN  IF lamports_change > 0 THEN LamportsToSol(lamports_change) ELSE 0

\* The calls of the RPC client, oldest first.
Rpc(name, signature) == [rpc |-> name, signature |-> signature]

\* The cursor moving to the oldest signature of the listing.
AdvanceCursorToOldest(signatures, cursor) ==
  IF signatures # <<>> THEN signatures[Len(signatures)] ELSE cursor

\* The cursor forgotten by a poll that finds it at the head of the listing.
AdvanceCursorOrForget(signatures, cursor) ==
  IF signatures # <<>> /\ signatures[1] # cursor THEN signatures[1] ELSE NoSignature

\* if signatures: self.last_signature = signatures[0].signature
AdvanceCursor(signatures, cursor) ==
  IF signatures # <<>> THEN signatures[1] ELSE cursor

\* The balance queried after every listing.
NeedsRefreshAlways(balance_change) == TRUE

\* if balance_change > 0: the balance is queried again.
NeedsRefresh(balance_change) == balance_change > 0

\* WalletSolana._poll after its sleep.  The poll reads the chain at its
\* awaits: h is the history when get_signatures_for_address answers, hb the
\* history when get_balance answers.  env tells which calls of the RPC client
\* raise: the listing, the fetch of one transaction (or its value is
\* missing), the balance query.  The result holds the fields of the instance
\* afterwards, the raw input returned and what the poll read on its way.
ScanPoll(acct, balance, previous, cursor, h, hb, env) ==
  LET same == [balance |-> balance, previous |-> previous, cursor |-> cursor,
               raw |-> [current |-> balance, change |-> 0],
               calls |-> <<>>, listed |-> FALSE, signatures |-> <<>>,
               new_signatures |-> <<>>, sum |-> 0]
  IN
  IF ~acct THEN same
  ELSE IF env.list = "raise"
  THEN [same EXCEPT !.calls = <<Rpc("get_signatures_for_address", NoSignature)>>]
  ELSE
    LET signatures == Listing(h)
        new_signatures == NewSignatures(signatures, cursor)
        advanced == AdvanceCursor(signatures, cursor)
        order == Reversed(new_signatures)
        balance_change == SumOf([i \in 1..Len(order) |-> SolChange(order[i], h, env)])
        fetched == [i \in 1..Len(order) |-> Rpc("get_transaction", order[i])]
        listedCalls == <<Rpc("get_signatures_for_address", NoSignature)>> \o fetched
        read == [same EXCEPT !.cursor = advanced, !.listed = TRUE,
                             !.signatures = signatures,
                             !.new_signatures = new_signatures,
                             !.sum = balance_change]
    IN
    IF NeedsRefresh(balance_change)
    THEN IF env.refresh
         THEN [read EXCEPT !.balance = LamportsToSol(LamportsAfter(hb)),
                           !.previous = LamportsToSol(LamportsAfter(hb)),
                           !.raw = [current |-> LamportsToSol(LamportsAfter(hb)),
                                    change |-> balance_change],
                           !.calls = listedCalls \o <<Rpc("get_balance", NoSignature)>>]
         ELSE [read EXCEPT !.calls = listedCalls \o <<Rpc("get_balance", NoSignature)>>]
    ELSE [read EXCEPT !.calls = listedCalls]

\* The transactions whose fetch can fail in a poll: none, the oldest or the
\* newest of the new ones.
FailCandidates(h, cursor) ==
  LET new_signatures == NewSignatures(Listing(h), cursor)
  IN  {NoSignature} \cup
      (IF new_signatures = <<>> THEN {}
       ELSE {new_signatures[1], new_signatures[Len(new_signatures)]})

NoScanFailure == [list |-> "ok", failTx |-> NoSignature, refresh |-> TRUE]

\* What the RPC client can do to one poll of this instance, as far as the
\* poll can tell: the balance query fails only in a poll that issues it.
ScanEnvs(acct, h, cursor) ==
  IF ~acct THEN {NoScanFailure}
  ELSE {[NoScanFailure EXCEPT !.list = "raise"]} \cup
       {[NoScanFailure EXCEPT !.failTx = f] : f \in FailCandidates(h, cursor)} \cup
       {[NoScanFailure EXCEPT !.failTx = f, !.refresh = FALSE] :
          f \in {c \in FailCandidates(h, cursor) :
                   NeedsRefresh(ScanPoll(acct, 0, 0, cursor, h, h,
                                         [NoScanFailure EXCEPT !.failTx = c]).sum)}}

NoScanPoll ==
  [op |-> "none", polls |-> 0, env |-> NoScanFailure, seen |-> 0,
   prior |-> [op |-> "none", seen |-> 0, listed |-> FALSE],
   before |-> [balance |-> 0, previous |-> 0, cursor |-> NoSignature],
   out |-> ScanPoll(FALSE, 0, 0, NoSignature, <<>>, <<>>, NoScanFailure)]

\* Calls awaited by a coroutine and not answered yet.
NoWait == {}

\* A WalletSolana never constructed beside the instance under study.
IdleScan ==
  /\ sol_account = FALSE
  /\ SOL_balance = 0
  /\ SOL_balance_previous = 0
  /\ last_signature = NoSignature
  /\ history = <<>>
  /\ arrivals = 0
  /\ scan_last = NoScanPoll
  /\ rpc_wait = NoWait

\* WalletSolana.__init__: keypair, client and pubkey are set only from a
\* usable key; no call reaches the chain.  The account may have a history
\* before the instance exists.
ScanInit ==
  /\ \E key \in KeySettings : sol_account = (key = "valid")
  /\ SOL_balance = 0
  /\ SOL_balance_previous = 0
  /\ last_signature = NoSignature
  /\ history \in {<<>>, <<Incoming>>}
  /\ arrivals = 0
  /\ scan_last = NoScanPoll
  /\ rpc_wait = NoWait

\* How far a poll has come: the call it awaits, the cursor it started from,
\* the length of the history its listing held, the transaction it fetches
\* (a position in the order of the fetches) and what the RPC client does to
\* its calls.
Progress(awaits, cursor, seen, i, env) ==
  [awaits |-> awaits, cursor |-> cursor, seen |-> seen, i |-> i, env |-> env]

\* The poll in flight, if any.
Polling == WaitingFor("WalletSolana._poll")

\* The return of _poll: r is the poll as ScanPoll gives it.  The fields of
\* the instance were written on the way; the listen loop holds the raw input.
PollReturns(r, p) ==
  /\ det_loop' = [pc |-> "polled", raw |-> r.raw, pending |-> NoMessage]
  /\ det_last' = [NoDetectorOp EXCEPT !.op = "_poll", !.raw = r.raw]
  /\ scan_last' = [op |-> "_poll", polls |-> scan_last.polls + 1,
                   env |-> p.env, seen |-> p.seen,
                   prior |-> [op |-> scan_last.op, seen |-> scan_last.seen,
                              listed |-> scan_last.out.listed],
                   before |-> [balance |-> SOL_balance,
                               previous |-> SOL_balance_previous,
                               cursor |-> p.cursor],
                   out |-> r]

\* _poll of the WalletSolana listen loop from the end of its sleep to the
\* await of get_signatures_for_address; an instance without a key returns
\* here.
SolanaPoll ==
  /\ now < MaxClock
  /\ scan_last.polls < MaxScanPolls
  /\ det_loop.pc = "idle"
  /\ Polling = {}
  /\ LET p == Progress("get_signatures_for_address", last_signature, Len(history), 0,
                       NoScanFailure)
     IN  IF sol_account
         THEN /\ det_loop' = [det_loop EXCEPT !.pc = "waiting"]
              /\ rpc_wait' = rpc_wait \cup {Waiting("WalletSolana._poll", <<p>>)}
              /\ UNCHANGED <<det_last, scan_last>>
         ELSE /\ PollReturns(ScanPoll(sol_account, SOL_balance, SOL_balance_previous,
                                      last_signature, history, history, p.env), p)
              /\ UNCHANGED rpc_wait
  /\ now' = now + 1
  /\ UNCHANGED <<sol_account, SOL_balance, SOL_balance_previous, last_signature, history,
                 arrivals>>
  /\ UNCHANGED <<det_account, ETH_balance, ETH_balance_previous, messages, det_sink,
                 det_trace>>
  /\ UNCHANGED <<dispatchVars, managerVars, robotVars>>
  /\ UNCHANGED browserVars

\* _poll from the answer of get_signatures_for_address to the await of the
\* first get_transaction: the listing is walked and last_signature written.
\* A poll whose listing raises, or holds nothing new, returns here.
SolanaListed ==
  /\ \E w \in Polling : \E env \in ScanEnvs(sol_account, history, last_signature) :
       LET p == Progress("get_transaction", w.arg[1].cursor, Len(history), 1, env)
           r == ScanPoll(sol_account, SOL_balance, SOL_balance_previous,
                         last_signature, history, history, env)
       IN  /\ w.arg[1].awaits = "get_signatures_for_address"
           /\ last_signature' = r.cursor
           /\ IF r.new_signatures = <<>>
              THEN /\ PollReturns(r, p)
                   /\ rpc_wait' = rpc_wait \ {w}
              ELSE /\ rpc_wait' = (rpc_wait \ {w}) \cup {[w EXCEPT !.arg = <<p>>]}
                   /\ UNCHANGED <<det_loop, det_last, scan_last>>
  /\ UNCHANGED <<sol_account, SOL_balance, SOL_balance_previous, history, arrivals>>
  /\ UNCHANGED <<det_account, ETH_balance, ETH_balance_previous, messages, det_sink,
                 det_trace, now>>
  /\ UNCHANGED <<dispatchVars, managerVars, robotVars>>
  /\ UNCHANGED browserVars

\* _poll from the answer of one get_transaction to the next await: the next
\* get_transaction, or get_balance when the changes summed up are positive.
\* A poll that found no gain returns after the last of them.
SolanaFetched ==
  /\ \E w \in Polling :
       LET p == w.arg[1]
           r == ScanPoll(sol_account, SOL_balance, SOL_balance_previous, p.cursor,
                         SubSeq(history, 1, p.seen), history, p.env)
       IN  /\ p.awaits = "get_transaction"
           /\ IF p.i < Len(r.new_signatures)
              THEN /\ rpc_wait' = (rpc_wait \ {w}) \cup
                                    {[w EXCEPT !.arg = <<[p EXCEPT !.i = p.i + 1]>>]}
                   /\ UNCHANGED <<det_loop, det_last, scan_last>>
              ELSE IF NeedsRefresh(r.sum)
              THEN /\ rpc_wait' = (rpc_wait \ {w}) \cup
                                    {[w EXCEPT !.arg = <<[p EXCEPT !.awaits = "get_balance"]>>]}
                   /\ UNCHANGED <<det_loop, det_last, scan_last>>
              ELSE /\ PollReturns(r, p)
                   /\ rpc_wait' = rpc_wait \ {w}
  /\ UNCHANGED <<sol_account, SOL_balance, SOL_balance_previous, last_signature, history,
                 arrivals>>
  /\ UNCHANGED <<det_account, ETH_balance, ETH_balance_previous, messages, det_sink,
                 det_trace, now>>
  /\ UNCHANGED <<dispatchVars, managerVars, robotVars>>
  /\ UNCHANGED browserVars

\* _poll from the answer of get_balance to its return: the balance the chain
\* holds at that moment is stored as SOL_balance and SOL_balance_previous.
SolanaRefreshed ==
  /\ \E w \in Polling :
       LET p == w.arg[1]
           r == ScanPoll(sol_account, SOL_balance, SOL_balance_previous, p.cursor,
                         SubSeq(history, 1, p.seen), history, p.env)
       IN  /\ p.awaits = "get_balance"
           /\ SOL_balance' = r.balance
           /\ SOL_balance_previous' = r.previous
           /\ PollReturns(r, p)
           /\ rpc_wait' = rpc_wait \ {w}
  /\ UNCHANGED <<sol_account, last_signature, history, arrivals>>
  /\ UNCHANGED <<det_account, ETH_balance, ETH_balance_previous, messages, det_sink,
                 det_trace, now>>
  /\ UNCHANGED <<dispatchVars, managerVars, robotVars>>
  /\ UNCHANGED browserVars

\* The chain confirms transactions that name, or do not name, the account,
\* at any moment: between two polls or while a poll waits for an answer.
Arrive ==
  /\ arrivals < MaxArrivals
  /\ \E batch \in {<<kind>> : kind \in TransactionKinds} \cup {Burst} :
       history' = history \o batch
  /\ arrivals' = arrivals + 1
  /\ UNCHANGED <<sol_account, SOL_balance, SOL_balance_previous, last_signature,
                 scan_last, rpc_wait>>
  /\ UNCHANGED <<dispatchVars, managerVars, robotVars, detectorVars>>
  /\ UNCHANGED browserVars

(***************************************************************************)
(* Calls made on the thread of the event loop itself.  A coroutine that    *)
(* calls web3 without run_in_executor keeps the thread until the endpoint  *)
(* has answered, and no other task of the loop runs meanwhile.             *)
(***************************************************************************)
\* The call sites that reach the endpoint without an await:
\* self.w3.eth.get_balance in WalletCoinbase._poll, w3.eth.get_balance and
\* w3.eth.chain_id in CoinbaseProvider.connect.
InlineCalls == {"WalletCoinbase._poll", "CoinbaseProvider.connect"}

LoopThreadFree == \A w \in rpc_wait : w.task \notin InlineCalls

\* WalletCoinbase._poll from the end of its sleep into the call of
\* self.w3.eth.get_balance.
DetectorPollCall ==
  /\ now < MaxClock
  /\ det_loop.pc = "idle"
  /\ det_account
  /\ LoopThreadFree
  /\ det_loop' = [det_loop EXCEPT !.pc = "waiting"]
  /\ rpc_wait' = rpc_wait \cup {Waiting("WalletCoinbase._poll", <<>>)}
  /\ now' = now + 1
  /\ UNCHANGED <<det_account, ETH_balance, ETH_balance_previous, messages, det_sink,
                 det_last, det_trace>>
  /\ UNCHANGED <<sol_account, SOL_balance, SOL_balance_previous, last_signature, history,
                 arrivals, scan_last>>
  /\ UNCHANGED <<dispatchVars, managerVars, robotVars>>
  /\ UNCHANGED browserVars

\* WalletCoinbase._poll from the answer of self.w3.eth.get_balance to its
\* return.
DetectorPollReturn ==
  /\ now < MaxClock
  /\ det_loop.pc = "waiting"
  /\ \E w \in WaitingFor("WalletCoinbase._poll") : \E fetch \in PollFetches(det_account) :
       LET r == DeltaPoll(det_account, ETH_balance, ETH_balance_previous, fetch)
       IN  /\ ETH_balance' = r.balance
           /\ ETH_balance_previous' = r.previous
           /\ det_loop' = [pc |-> "polled", raw |-> r.raw, pending |-> NoMessage]
           /\ det_last' = [op |-> "_poll", raw |-> r.raw, result |-> NoMessage,
                           before |-> [balance |-> ETH_balance,
                                       previous |-> ETH_balance_previous],
                           fetch |-> fetch]
           /\ rpc_wait' = rpc_wait \ {w}
  /\ now' = now + 1
  /\ UNCHANGED <<det_account, messages, det_sink, det_trace>>
  /\ UNCHANGED <<sol_account, SOL_balance, SOL_balance_previous, last_signature, history,
                 arrivals, scan_last>>
  /\ UNCHANGED <<dispatchVars, managerVars, robotVars>>
  /\ UNCHANGED browserVars

(***************************************************************************)
(* WalletMultiProvider: the wallets the browser reports for the two chains *)
(* and the transactions it reports, kept for the interface.                *)
(***************************************************************************)
\* WalletMultiProvider.__init__
MultiProviderInit ==
  /\ connected_wallets =
       [evm |-> [connected |-> FALSE, address |-> NoStr, chain_id |-> NoNum],
        solana |-> [connected |-> FALSE, address |-> NoStr, cluster |-> NoStr]]
  /\ transactions = <<>>
  /\ multi_last = [op |-> "none", result |-> [type |-> "none"]]

\* Events the browser reports.
WalletChains == {"evm", "solana"}
EventChains == WalletChains \cup {"bitcoin"}
WalletAddresses == {<<"0","x","a","b">>, <<"0","x","c","d">>}
Metadata ==
  {[chain_id |-> NoNum, cluster |-> NoStr],
   [chain_id |-> SomeNum(84532), cluster |-> SomeStr(<<"t","e","s","t">>)]}
ReportedTransactions ==
  {[chain |-> "evm", to_address |-> SomeStr(<<"0","x","c","d">>), amount |-> SomeNum(2),
    signature |-> NoStr, tx_hash |-> SomeStr(<<"0","x","7","e">>)],
   [chain |-> "solana", to_address |-> NoStr, amount |-> NoNum,
    signature |-> SomeStr(<<"0","x","5","f">>), tx_hash |-> NoStr]}

\* handle_wallet_connect(chain, address, metadata); on_chain is its chain.
HandleWalletConnect ==
  /\ \E on_chain \in EventChains, address \in WalletAddresses, metadata \in Metadata :
       /\ connected_wallets' =
            IF on_chain = "evm"
            THEN [connected_wallets EXCEPT
                    !.evm = [connected |-> TRUE, address |-> SomeStr(address),
                             chain_id |-> metadata.chain_id]]
            ELSE IF on_chain = "solana"
            THEN [connected_wallets EXCEPT
                    !.solana = [connected |-> TRUE, address |-> SomeStr(address),
                                cluster |-> IF metadata.cluster.some THEN metadata.cluster
                                            ELSE SomeStr(<<"d","e","v","n","e","t">>)]]
            ELSE connected_wallets
       /\ multi_last' = [op |-> "handle_wallet_connect", result |-> [type |-> on_chain]]
  /\ UNCHANGED transactions
  /\ UNCHANGED <<sim_state, sim_inputs, sim_last>>
  /\ UNCHANGED <<dispatchVars, managerVars, robotVars, detectorVars, scanVars>>

\* handle_wallet_disconnect(chain); on_chain is its chain.
HandleWalletDisconnect ==
  /\ \E on_chain \in EventChains :
       /\ connected_wallets' =
            IF on_chain \in DOMAIN connected_wallets
            THEN [connected_wallets EXCEPT
                    ![on_chain] = [connected |-> FALSE, address |-> NoStr]]
            ELSE connected_wallets
       /\ multi_last' = [op |-> "handle_wallet_disconnect", result |-> [type |-> on_chain]]
  /\ UNCHANGED transactions
  /\ UNCHANGED <<sim_state, sim_inputs, sim_last>>
  /\ UNCHANGED <<dispatchVars, managerVars, robotVars, detectorVars, scanVars>>

\* handle_transaction(chain, from_address, to_address, amount, signature,
\* tx_hash): a WalletTransaction stamped with time.time() is appended.
HandleTransaction ==
  /\ Len(transactions) < MaxTransactions
  /\ now < MaxClock
  /\ \E reported \in ReportedTransactions, from_address \in WalletAddresses :
       transactions' =
         Append(transactions,
                [chain |-> reported.chain, from_address |-> from_address,
                 to_address |-> reported.to_address, amount |-> reported.amount,
                 signature |-> reported.signature, tx_hash |-> reported.tx_hash,
                 timestamp |-> now])
  /\ multi_last' = [op |-> "handle_transaction", result |-> [type |-> "none"]]
  /\ now' = now + 1
  /\ UNCHANGED connected_wallets
  /\ UNCHANGED <<sim_state, sim_inputs, sim_last>>
  /\ UNCHANGED <<det_account, ETH_balance, ETH_balance_previous, messages, det_sink,
                 det_loop, det_last, det_trace>>
  /\ UNCHANGED <<dispatchVars, managerVars, robotVars, scanVars>>

\* _poll answering with the transaction recorded first.
PollOldest(txs, wallets) ==
  IF txs # <<>>
  THEN LET recent_tx == txs[1]
       IN  [type |-> "transaction", chain |-> recent_tx.chain,
            from |-> recent_tx.from_address, to |-> recent_tx.to_address,
            amount |-> recent_tx.amount, tx_hash |-> recent_tx.tx_hash,
            timestamp |-> recent_tx.timestamp]
  ELSE [type |-> "wallet_state", evm |-> wallets.evm, solana |-> wallets.solana]

\* WalletMultiProvider._poll: the value returned.
PollWallets(txs, wallets) ==
  IF txs # <<>>
  THEN LET recent_tx == txs[Len(txs)]
       IN  [type |-> "transaction", chain |-> recent_tx.chain,
            from |-> recent_tx.from_address, to |-> recent_tx.to_address,
            amount |-> recent_tx.amount, tx_hash |-> recent_tx.tx_hash,
            timestamp |-> recent_tx.timestamp]
  ELSE [type |-> "wallet_state", evm |-> wallets.evm, solana |-> wallets.solana]

\* One _poll of the WalletMultiProvider listen loop.
MultiProviderPoll ==
  /\ multi_last' = [op |-> "_poll", result |-> PollWallets(transactions, connected_wallets)]
  /\ UNCHANGED <<connected_wallets, transactions>>
  /\ UNCHANGED <<sim_state, sim_inputs, sim_last>>
  /\ UNCHANGED <<dispatchVars, managerVars, robotVars, detectorVars, scanVars>>

(***************************************************************************)
(* WebSim: the three user-wallet endpoints of the simulator and sim().     *)
(* The endpoints run one request at a time on the server thread; a handler *)
(* adds its record to the IOProvider and then takes _lock to write the     *)
(* wallet fields of the state.  sim() runs on the main thread and takes    *)
(* _lock for all it does, so it runs before, after or between the two      *)
(* steps of a request.  The WalletManager of the simulator is the user     *)
(* role modelled above.  The time of a record is left out.                 *)
(***************************************************************************)
NoAnswer == [status |-> "none", message |-> <<>>]
Answer(status, message) == [status |-> status, message |-> message]

\* SimulatorState(wallet_action="", wallet_status="")
IdleWalletState == [wallet_action |-> <<>>, wallet_status |-> <<>>]

\* What a handler that has added its record still has to do under _lock.
NoUpdate == [state |-> IdleWalletState, response |-> NoAnswer]

\* The most recent request: "recorded" while its handler waits for _lock,
\* "done" once it has answered; before and after are the wallet fields of
\* the state when the handler took its last step and when it had taken it.
NoRequest ==
  [op |-> "none", requests |-> 0, data |-> [action_type |-> "none"],
   result |-> NoManagerOp.result, phase |-> "done", update |-> NoUpdate,
   before |-> IdleWalletState, after |-> IdleWalletState, response |-> NoAnswer]

\* No handler is between its record and its update.
ServerThreadFree == sim_last.phase = "done"

\* WebSim.__init__: the wallet fields of self.state.
WebSimInit ==
  /\ sim_state = IdleWalletState
  /\ sim_inputs = <<>>
  /\ sim_last = NoRequest

\* The record add_input("UserWallet", status_message, ...) stores.
UserWalletInput(action, status, detail) ==
  [label |-> "UserWallet", action |-> action, status |-> status, detail |-> detail]

\* Bodies of the requests the browser posts.
WalletName == "MetaMask"
WalletType == "evm"
ConnectRequests ==
  {[address |-> a, chainId |-> c, balance |-> SomeNum(5), walletName |-> WalletName] :
     a \in {NoStr, SomeStr(<<"0","x","a","b">>), SomeStr(<<"0","x","c","d">>)},
     c \in {NoNum, SomeNum(0), SomeNum(1)}}
SubmitAddresses == {<<"0","x","a","b">>, <<"0","x","A","B">>, <<"0","x","c","d">>}
SubmitRequests ==
  {[action_type |-> t, from_address |-> f, message |-> <<"h","i">>,
    signature |-> <<"0","x","5","f">>, to_address |-> <<"0","x","c","d">>,
    amount |-> 2, tx_hash |-> <<"0","x","7","e">>, wallet_type |-> WalletType] :
     t \in {"sign", "transfer", "stake"}, f \in SubmitAddresses}

\* POST /api/user-wallet/connect, up to add_input("UserWallet", ...); a
\* request without address or chainId is answered here.
UserWalletConnect ==
  /\ sim_last.requests < MaxRequests
  /\ ServerThreadFree
  /\ \E data \in ConnectRequests :
       IF ~data.address.some \/ ~data.chainId.some \/ data.chainId.val = 0
       THEN /\ sim_last' = [op |-> "user_wallet_connect", requests |-> sim_last.requests + 1,
                            data |-> data, result |-> NoManagerOp.result,
                            phase |-> "done", update |-> NoUpdate,
                            before |-> sim_state, after |-> sim_state,
                            response |-> Answer("error", "Address and chainId required")]
            /\ UNCHANGED <<user_connected, user_wallet_info, sim_inputs>>
       ELSE /\ user_wallet_info' =
                 SetWalletInfo(data.address.val, data.chainId.val, data.balance)
            /\ user_connected' = TRUE
            /\ sim_inputs' = Append(sim_inputs,
                                    UserWalletInput("connect", "success",
                                                    <<data.address.val, data.chainId.val,
                                                      data.balance.val, data.walletName>>))
            /\ sim_last' = [op |-> "user_wallet_connect", requests |-> sim_last.requests + 1,
                            data |-> data, result |-> NoManagerOp.result,
                            phase |-> "recorded",
                            update |->
                              [state |->
                                 [wallet_action |-> <<"User connected", data.walletName>>,
                                  wallet_status |-> <<"User wallet connected",
                                                      data.address.val>>],
                               response |-> Answer("success", "User wallet connected")],
                            before |-> sim_state, after |-> sim_state,
                            response |-> NoAnswer]
  /\ UNCHANGED sim_state
  /\ UNCHANGED <<robot_connected, mgr_ops, mgr_last, mgr_trace>>
  /\ UNCHANGED <<connected_wallets, transactions, multi_last>>
  /\ UNCHANGED <<dispatchVars, robotVars, detectorVars, scanVars>>

\* POST /api/user-wallet/disconnect, up to add_input("UserWallet", ...).
UserWalletDisconnect ==
  /\ sim_last.requests < MaxRequests
  /\ ServerThreadFree
  /\ user_wallet_info' = NoWalletInfo
  /\ user_connected' = FALSE
  /\ sim_inputs' = Append(sim_inputs, UserWalletInput("disconnect", "success", <<>>))
  /\ sim_last' = [op |-> "user_wallet_disconnect", requests |-> sim_last.requests + 1,
                  data |-> [action_type |-> "none"], result |-> NoManagerOp.result,
                  phase |-> "recorded",
                  update |->
                    [state |-> [wallet_action |-> <<"User disconnected wallet">>,
                                wallet_status |-> <<"User wallet disconnected">>],
                     response |-> Answer("success", "User wallet disconnected")],
                  before |-> sim_state, after |-> sim_state,
                  response |-> NoAnswer]
  /\ UNCHANGED sim_state
  /\ UNCHANGED <<robot_connected, mgr_ops, mgr_last, mgr_trace>>
  /\ UNCHANGED <<connected_wallets, transactions, multi_last>>
  /\ UNCHANGED <<dispatchVars, robotVars, detectorVars, scanVars>>

\* user_wallet_submit: the manager's result, the record added to the
\* IOProvider, the wallet fields of the state afterwards and the answer.
SubmitHandler(connected, info, state, data) ==
  IF data.action_type \notin {"sign", "transfer"}
  THEN [result |-> NoManagerOp.result, writes |-> <<>>, state |-> state,
        response |-> Answer("error", <<"Unknown action type", data.action_type>>)]
  ELSE LET result ==
             IF data.action_type = "sign"
             THEN ProcessUserSignature(connected, info, data.message, data.signature,
                                       data.from_address)
             ELSE ProcessUserTransaction(connected, info, data.from_address,
                                         data.to_address, data.amount, data.tx_hash)
       IN  IF result.status = "raised"
           THEN [result |-> result, writes |-> <<>>, state |-> state,
                 response |-> Answer("error", result.message)]
           ELSE [result |-> result,
                 writes |-> << UserWalletInput(data.action_type, result.status,
                                               IF result.status = "success"
                                               THEN result.data
                                               ELSE <<result.message>>) >>,
                 state |-> IF data.action_type = "sign"
                           THEN [wallet_action |-> <<"User signed message", data.wallet_type>>,
                                 wallet_status |-> <<"User wallet signed", data.message>>]
                           ELSE [wallet_action |-> <<"User transferred", data.amount,
                                                     data.wallet_type>>,
                                 wallet_status |-> <<"User wallet transfer", data.amount,
                                                     data.to_address>>],
                 response |-> Answer("success", "Action received and processed by robot")]

\* POST /api/user-wallet/submit, up to add_input("UserWallet", ...); an
\* unknown action type and an exception of the manager are answered here.
UserWalletSubmit ==
  /\ sim_last.requests < MaxRequests
  /\ ServerThreadFree
  /\ \E data \in SubmitRequests :
       LET r == SubmitHandler(user_connected, user_wallet_info, sim_state, data)
       IN  /\ sim_inputs' = sim_inputs \o r.writes
           /\ sim_last' =
                 IF r.writes = <<>>
                 THEN [op |-> "user_wallet_submit", requests |-> sim_last.requests + 1,
                       data |-> data, result |-> r.result,
                       phase |-> "done", update |-> NoUpdate,
                       before |-> sim_state, after |-> sim_state,
                       response |-> r.response]
                 ELSE [op |-> "user_wallet_submit", requests |-> sim_last.requests + 1,
                       data |-> data, result |-> r.result,
                       phase |-> "recorded",
                       update |-> [state |-> r.state, response |-> r.response],
                       before |-> sim_state, after |-> sim_state,
                       response |-> NoAnswer]
  /\ UNCHANGED sim_state
  /\ UNCHANGED managerVars
  /\ UNCHANGED <<connected_wallets, transactions, multi_last>>
  /\ UNCHANGED <<dispatchVars, robotVars, detectorVars, scanVars>>

\* The rest of a user-wallet handler: with self._lock it writes the wallet
\* fields of the state, then it answers the browser.
UserWalletUpdate ==
  /\ sim_last.phase = "recorded"
  /\ sim_state' = sim_last.update.state
  /\ sim_last' = [sim_last EXCEPT !.phase = "done", !.update = NoUpdate,
                                  !.before = sim_state, !.after = sim_last.update.state,
                                  !.response = sim_last.update.response]
  /\ UNCHANGED sim_inputs
  /\ UNCHANGED managerVars
  /\ UNCHANGED <<connected_wallets, transactions, multi_last>>
  /\ UNCHANGED <<dispatchVars, robotVars, detectorVars, scanVars>>

\* The actions handed to sim(): wallet actions and others, in order.
SimAction(type, value) == [type |-> type, value |-> value]
SimActionLists ==
  {<<>>,
   <<SimAction("move", <<"wave">>)>>,
   <<SimAction("wallet", <<"poll">>)>>,
   <<SimAction("wallet", <<"poll">>), SimAction("wallet", <<"sign:hi">>)>>}

\* The input "WalletStatus" of the IOProvider when sim() reads it: absent,
\* or the text of the latest status record of a connector.
WalletStatusInputs == {NoStr, SomeStr(<<"action=poll status=success">>)}

\* The wallet fields sim() leaves: the value of the last action of type
\* "wallet", and the text of the input "WalletStatus" when there is one.
SimUpdate(state, actions, wallet_status_input) ==
  LET wallet == SelectSeq(actions, LAMBDA a : a.type = "wallet")
  IN  [wallet_action |-> IF wallet = <<>> THEN state.wallet_action
                         ELSE wallet[Len(wallet)].value,
       wallet_status |-> IF wallet_status_input.some THEN wallet_status_input.val
                         ELSE state.wallet_status]

\* sim(actions) on an initialized simulator.
Sim ==
  /\ \E actions \in SimActionLists, wallet_status_input \in WalletStatusInputs :
       sim_state' = SimUpdate(sim_state, actions, wallet_status_input)
  /\ UNCHANGED <<sim_inputs, sim_last>>
  /\ UNCHANGED managerVars
  /\ UNCHANGED <<connected_wallets, transactions, multi_last>>
  /\ UNCHANGED <<dispatchVars, robotVars, detectorVars, scanVars>>

(***************************************************************************)
(* Specifications.                                                         *)
(***************************************************************************)
Init ==
  /\ ConnectorInit /\ ManagerInit /\ IdleDetector /\ IdleScan
  /\ MultiProviderInit /\ WebSimInit

\* The action dispatcher of one connector instance.
Next ==
  \/ DispatcherConnect
  \/ DispatcherResume

Spec == Init /\ [][Next]_vars

\* The wallet manager on its own: no connector instance is driven beside it.
WalletInit ==
  /\ chain = "evm"
  /\ privateKey = "absent"
  /\ account = FALSE
  /\ sink = <<>>
  /\ invocations = 0
  /\ pending = EmptyBag
  /\ last = NoInvocation
  /\ ManagerInit
  /\ IdleDetector
  /\ IdleScan
  /\ MultiProviderInit
  /\ WebSimInit

\* The wallet manager.
ManagerNext ==
  \/ ConnectUserWallet
  \/ DisconnectUserWallet
  \/ UserSignature
  \/ UserTransaction
  \/ UserProviderSetWalletInfo
  \/ UserProviderDisconnect

ManagerSpec == WalletInit /\ [][ManagerNext]_vars

\* The wallet manager with both roles and its two providers.
WalletNext ==
  \/ ConnectRobotWallet
  \/ DisconnectRobotWallet
  \/ RobotSignCall
  \/ RobotSignReply
  \/ RobotSendCall
  \/ RobotSendReply
  \/ RobotBalanceCall
  \/ RobotBalanceReply
  \/ ConnectUserWallet
  \/ DisconnectUserWallet
  \/ ProviderGetBalanceCall
  \/ ProviderGetBalanceReply
  \/ UserProviderConnect
  \/ UserProviderGetBalance
  \/ UserProviderSign
  \/ UserProviderSend
  \/ UserProviderSetWalletInfo
  \/ UserProviderDisconnect

WalletSpec == WalletInit /\ [][WalletNext]_vars

\* The robot role and its provider, the provider called through the manager
\* and on manager.robot_wallet itself.
ProviderNext ==
  \/ ConnectRobotWallet
  \/ DisconnectRobotWallet
  \/ RobotSignCall
  \/ RobotSignReply
  \/ RobotSendCall
  \/ RobotSendReply
  \/ RobotBalanceCall
  \/ RobotBalanceReply
  \/ ProviderConnect
  \/ ProviderDisconnect
  \/ ProviderGetBalanceCall
  \/ ProviderGetBalanceReply
  \/ ProviderSignCall
  \/ ProviderSignReply
  \/ ProviderSendCall
  \/ ProviderSendReply

ProviderSpec == WalletInit /\ [][ProviderNext]_vars

\* Every operation that broadcasts a transfer: the action dispatcher of a
\* connector, robot_send_transaction of the manager and send_transaction of
\* its provider, with the connects and disconnects of the robot role around
\* them.  The connector and the manager are objects of their own that share
\* no state: a behaviour drives one of them and leaves the other as built.
\* The manager reads nothing of a connector and is driven beside the unused
\* connector of WalletInit.
ManagerUnused == mgr_ops = 0
ConnectorUnused ==
  /\ chain = "evm" /\ privateKey = "absent"
  /\ invocations = 0 /\ pending = EmptyBag

BroadcastNext ==
  \/ ManagerUnused /\ DispatcherConnect
  \/ DispatcherResume
  \/ ConnectorUnused /\ ConnectRobotWallet
  \/ ConnectorUnused /\ DisconnectRobotWallet
  \/ ConnectorUnused /\ RobotSendCall
  \/ RobotSendReply
  \/ ConnectorUnused /\ ProviderSendCall
  \/ ProviderSendReply

BroadcastSpec == Init /\ [][BroadcastNext]_vars

\* One balance detector with its buffer and the consumer of the buffer.
DetectorOnlyInit ==
  /\ chain = "evm"
  /\ privateKey = "absent"
  /\ account = FALSE
  /\ sink = <<>>
  /\ invocations = 0
  /\ pending = EmptyBag
  /\ last = NoInvocation
  /\ ManagerInit
  /\ DetectorInit
  /\ IdleScan
  /\ MultiProviderInit
  /\ WebSimInit

DetectorNext ==
  \/ DetectorPoll
  \/ RawToTextBegin
  \/ RawToTextAppend
  \/ FormattedLatestBuffer

DetectorSpec == DetectorOnlyInit /\ [][DetectorNext]_vars

\* One transaction-scan detector, its buffer and the chain it watches.
ScanOnlyInit ==
  /\ chain = "evm"
  /\ privateKey = "absent"
  /\ account = FALSE
  /\ sink = <<>>
  /\ invocations = 0
  /\ pending = EmptyBag
  /\ last = NoInvocation
  /\ ManagerInit
  /\ IdleDetector
  /\ ScanInit
  /\ MultiProviderInit
  /\ WebSimInit

\* The consumer is followed when it finds something: on an empty buffer
\* formatted_latest_buffer returns None and writes nothing.
Buffered == messages # <<>>

ScanNext ==
  \/ SolanaPoll
  \/ SolanaListed
  \/ SolanaFetched
  \/ SolanaRefreshed
  \/ RawToTextBegin
  \/ RawToTextAppend
  \/ Buffered /\ SolanaFormattedLatestBuffer
  \/ Arrive

ScanSpec == ScanOnlyInit /\ [][ScanNext]_vars

\* The robot role of the wallet manager beside the poll loop of a
\* transaction-scan detector, every operation split at its first await.
InFlightInit ==
  /\ chain = "evm"
  /\ privateKey = "absent"
  /\ account = FALSE
  /\ sink = <<>>
  /\ invocations = 0
  /\ pending = EmptyBag
  /\ last = NoInvocation
  /\ ManagerInit
  /\ IdleDetector
  /\ ScanInit
  /\ MultiProviderInit
  /\ WebSimInit
  /\ sol_account

InFlightNext ==
  \/ ConnectRobotWallet
  \/ DisconnectRobotWallet
  \/ RobotBalanceCall
  \/ RobotBalanceReply
  \/ SolanaPoll
  \/ SolanaListed
  \/ SolanaFetched
  \/ SolanaRefreshed
  \/ RawToTextBegin
  \/ RawToTextAppend

InFlightSpec == InFlightInit /\ [][InFlightNext]_vars

\* The poll loop of a WalletCoinbase detector and the robot role of the
\* wallet manager as tasks of one event loop: a task takes a step only
\* while no call holds the thread of the loop.
EventLoopInit ==
  /\ chain = "evm"
  /\ privateKey = "absent"
  /\ account = FALSE
  /\ sink = <<>>
  /\ invocations = 0
  /\ pending = EmptyBag
  /\ last = NoInvocation
  /\ ManagerInit
  /\ DetectorInit
  /\ det_account
  /\ IdleScan
  /\ MultiProviderInit
  /\ WebSimInit

EventLoopNext ==
  \/ DetectorPollCall
  \/ DetectorPollReturn
  \/ RawToTextBegin
  \/ RawToTextAppend
  \/ LoopThreadFree /\ ConnectRobotWallet
  \/ LoopThreadFree /\ DisconnectRobotWallet
  \/ LoopThreadFree /\ RobotBalanceCall
  \/ LoopThreadFree /\ RobotBalanceReply

EventLoopSpec == EventLoopInit /\ [][EventLoopNext]_vars

\* A dispatcher and a transaction-scan detector, both constructed without
\* their private key, beside an account that may have received a transfer.
\* The two instances share no field; the detector is polled first and the
\* dispatcher is driven after it.
KeylessInit ==
  /\ ConnectorInit
  /\ privateKey = "absent"
  /\ ManagerInit
  /\ IdleDetector
  /\ ScanInit
  /\ MultiProviderInit
  /\ WebSimInit
  /\ \E key \in {"absent"} : sol_account = (key = "valid")

DetectorAtRest == scan_last.polls = MaxScanPolls /\ det_loop.pc = "idle"

KeylessNext ==
  \/ SolanaPoll
  \/ RawToTextBegin
  \/ DetectorAtRest /\ DispatcherConnect

KeylessSpec == KeylessInit /\ [][KeylessNext]_vars

\* A WalletMultiProvider fed by the events of the browser.
MultiProviderNext ==
  \/ HandleWalletConnect
  \/ HandleWalletDisconnect
  \/ HandleTransaction
  \/ MultiProviderPoll

MultiProviderSpec == WalletInit /\ [][MultiProviderNext]_vars

\* The user-wallet endpoints of one WebSim.
WebSimNext ==
  \/ UserWalletConnect
  \/ UserWalletDisconnect
  \/ UserWalletSubmit
  \/ UserWalletUpdate
  \/ Sim

WebSimSpec == WalletInit /\ [][WebSimNext]_vars

\* Both roles of the wallet manager with every operation of the manager,
\* followed for MaxRoleOps operations.
RolesOpen == mgr_ops < MaxRoleOps

RolesNext ==
  \/ RolesOpen /\ ConnectRobotWallet
  \/ RolesOpen /\ DisconnectRobotWallet
  \/ RolesOpen /\ RobotSignCall
  \/ RobotSignReply
  \/ RolesOpen /\ RobotSendCall
  \/ RobotSendReply
  \/ RolesOpen /\ RobotBalanceCall
  \/ RobotBalanceReply
  \/ RolesOpen /\ ConnectUserWallet
  \/ RolesOpen /\ DisconnectUserWallet
  \/ RolesOpen /\ UserSignature
  \/ RolesOpen /\ UserTransaction

RolesSpec == WalletInit /\ [][RolesNext]_vars

(***************************************************************************)
(* Properties of the action dispatcher.                                    *)
(***************************************************************************)
\* connect() has been called at least once.
Invoked == last.out.handler # "init"

\* The action string of the last call as the caller wrote it, and with the
\* surrounding whitespace removed.
LastRaw == last.iface.action.val

\* Every action string with its surrounding whitespace removed, the text
\* before its first colon and the colon-separated arguments after it.
Commands ==
  [a \in ActionStrings |->
     LET cmd == Strip(a)
         k == FirstColon(cmd)
         verb == IF k = 0 THEN cmd ELSE SubSeq(cmd, 1, k - 1)
     IN  [cmd |-> cmd, verb |-> verb, lower |-> Lower(verb),
          args |-> IF k = 0 THEN <<>> ELSE Split(SubSeq(cmd, k + 1, Len(cmd)))]]

LastCmd == Commands[LastRaw].cmd
CmdVerb == Commands[LastRaw].verb
LowerVerb == Commands[LastRaw].lower
CmdArgs == Commands[LastRaw].args

KnownVerbs == {PollVerb, SignVerb, SendVerb, TransferVerb}

\* The last call wrote exactly one record, a failed one with this reason.
FailedWith(reason) ==
  /\ Len(last.out.writes) = 1
  /\ last.out.writes[1].status = "failed"
  /\ last.out.writes[1].reason = reason

EndedFailed ==
  /\ Len(last.out.writes) = 1
  /\ last.out.writes[1].status = "failed"

\* No collaborator was used: no rpc call, nothing signed, nothing broadcast.
NoChainCall == last.out.calls = <<>> /\ ~last.out.broadcast
NothingDone == NoChainCall /\ ~last.out.signed.some /\ last.out.handler = "none"

\* C1: every invocation of connect(), for every action string and every
\* outcome of the chain calls, appends exactly one status record to the sink
\* before it returns.
C1_ExactlyOneStatus ==
  /\ Len(sink) = invocations
  /\ Invoked => Len(last.out.writes) = 1 /\ ~last.out.escaped

\* C1 witness: two invocations done, the last one an unknown (empty) action
\* after a call whose rpc failed.
C1_Witness ==
  /\ invocations = 2
  /\ LastRaw = <<>>
  /\ FailedWith("unknown_action")
  /\ sink[1].reason = "exception"

\* C2 (as claimed): a transfer whose amount parses to a number that is not
\* strictly positive ends failed and no chain call is made for it.
C2_NonPositiveAmountRejected ==
  (/\ Invoked
   /\ LowerVerb = TransferVerb
   /\ Len(CmdArgs) >= 2
   /\ ParseFloat(CmdArgs[2]).ok
   /\ ~IsPositive(ParseFloat(CmdArgs[2]).val))
  => EndedFailed /\ NoChainCall

\* C3 (as claimed): on both chains a transfer whose destination fails the
\* chain's address-format check ends failed with no chain call issued.
C3_BadAddressBeforeAnyCall ==
  (/\ Invoked
   /\ last.out.handler = "transfer"
   /\ account
   /\ ~IsChainAddress(chain, ParseParams(last.iface).to_address.val))
  => EndedFailed /\ NoChainCall

\* C4 (as claimed): transfer:<addr>:<non-number> fails with the InvalidAmount
\* reason and never executes a transfer, whatever amount the input object held.
C4_UnparsableAmountInvalid ==
  (/\ Invoked
   /\ LowerVerb = TransferVerb
   /\ Len(CmdArgs) >= 2
   /\ CmdArgs[1] # <<>>
   /\ CmdArgs[2] # <<>>
   /\ ~ParseFloat(CmdArgs[2]).ok)
  => FailedWith("invalid_amount") /\ NothingDone

\* C5 (as claimed): a transfer with the amount missing (transfer:<addr>) or an
\* empty address fails with MissingParameters; no chain call, no transfer.
C5_MissingParameters ==
  (/\ Invoked
   /\ LowerVerb = TransferVerb
   /\ \/ Len(CmdArgs) = 1
      \/ (Len(CmdArgs) >= 2 /\ CmdArgs[1] = <<>>))
  => FailedWith("missing_parameters") /\ NothingDone

\* C6: every send:<addr> that names an address, in any wallet state, ends
\* failed with the reason that directs to transfer; nothing is built, signed
\* or broadcast and no chain call is made.
C6_SendIsPlaceholder ==
  (/\ Invoked
   /\ LowerVerb = SendVerb
   /\ Len(CmdArgs) >= 1
   /\ CmdArgs[1] # <<>>)
  => /\ FailedWith("use_transfer_action_instead")
     /\ NoChainCall
     /\ ~last.out.signed.some

\* C6 witness: send:<addr> on a connector without a wallet.
C6_Witness ==
  /\ Invoked
  /\ ~account
  /\ LastRaw = <<"s","e","n","d",":","a","b">>
  /\ FailedWith("use_transfer_action_instead")

\* The last action string is sign:<m> as written by the caller; m is the text
\* after its first colon.
SignCommands ==
  [a \in ActionStrings |->
     [sign |-> /\ FirstColon(a) = Len(SignVerb) + 1
               /\ Lower(SubSeq(a, 1, Len(SignVerb))) = SignVerb,
      payload |-> SubSeq(a, FirstColon(a) + 1, Len(a)),
      stripped |-> RStrip(SubSeq(a, FirstColon(a) + 1, Len(a)))]]

IsSignCmd == Invoked /\ SignCommands[LastRaw].sign

SignPayload == SignCommands[LastRaw].payload
StrippedPayload == SignCommands[LastRaw].stripped

\* C7 (as claimed): for sign:<m> the message handed to the signer is exactly
\* m; when m is empty the command fails with MissingMessage, nothing signed.
C7_SignExactPayload ==
  IsSignCmd =>
    /\ last.out.signed.some => last.out.signed.val = SignPayload
    /\ SignPayload = <<>> => FailedWith("missing_message") /\ NothingDone

\* C7 (amended): the action string is stripped before it is split, so the
\* message handed to the signer is m without trailing whitespace, colons
\* preserved; when that is empty the command fails with MissingMessage and
\* nothing is signed; otherwise the signing operation is invoked with it.
C7_SignStrippedPayload ==
  IsSignCmd =>
    /\ last.out.signed.some => last.out.signed.val = StrippedPayload
    /\ StrippedPayload = <<>> => FailedWith("missing_message") /\ NothingDone
    /\ StrippedPayload # <<>> => last.out.handler = "sign"
    /\ (/\ StrippedPayload # <<>>
        /\ account
        /\ last.env.failAt = 0) => last.out.signed = SomeStr(StrippedPayload)

\* C7 witness: a message with a colon inside was signed whole.
C7_Witness ==
  /\ IsSignCmd
  /\ SignPayload = <<"a",":","b">>
  /\ last.out.signed = SomeStr(<<"a",":","b">>)

\* The runs of connect() on each input object with its verb in lower case.
LowerCaseRuns ==
  [c \in {"evm", "sol"}, acct \in BOOLEAN |->
     [iface \in Inputs |->
        LET cmd == Commands[iface.action.val]
            lowered == [iface EXCEPT !.action =
                          SomeStr(Lower(cmd.verb)
                                  \o SubSeq(cmd.cmd, Len(cmd.verb) + 1, Len(cmd.cmd)))]
        IN  { [iface |-> iface, env |-> env, out |-> Connect(c, acct, lowered, env),
               raised |-> RaisedAt(c, lowered, env)] :
                env \in Envs(c, acct, iface) }]]

\* The input objects on which connect() does what it does on the object
\* with the verb in lower case, under every outcome of the collaborators.
CaseBlind ==
  [c \in {"evm", "sol"}, acct \in BOOLEAN |->
     {iface \in Inputs : Runs[c, acct][iface] = LowerCaseRuns[c, acct][iface]}]

\* C8: the verb is matched ignoring letter case, and a command whose verb is
\* none of poll, sign, send, transfer fails with UnknownAction without any
\* wallet operation or chain call.
C8_VerbRouting ==
  Invoked =>
    /\ LowerVerb \in KnownVerbs =>
         /\ Len(last.out.writes) = 1
         /\ last.out.writes[1].action = LowerVerb
         /\ last.out.writes[1].reason # "unknown_action"
         /\ last.iface \in CaseBlind[chain, account]
    /\ LowerVerb \notin KnownVerbs =>
         FailedWith("unknown_action") /\ NothingDone

\* C8 witness: an upper-case POLL fetched the balance.
C8_Witness ==
  /\ Invoked
  /\ LastRaw = <<"P","O","L","L">>
  /\ last.out.handler = "poll"
  /\ last.out.calls = <<"get_balance">>
  /\ last.out.writes[1].status = "success"

\* C9: no error leaves connect(): whenever a collaborator raised, the call
\* returned normally with one record of status failed.
C9_NoErrorEscapes ==
  Invoked =>
    /\ ~last.out.escaped
    /\ last.out.raised # 0 => EndedFailed

\* C9 witness: a command whose rpc call raised, then a command that succeeded
\* on the same dispatcher.
C9_Witness ==
  /\ invocations = 2
  /\ sink[1].status = "failed"
  /\ sink[1].reason = "exception"
  /\ last.out.raised = 0
  /\ last.out.writes[1].status = "success"

(***************************************************************************)
(* Properties of the wallet manager.                                       *)
(***************************************************************************)
\* Two characters are the same letter in either case.
SameLetter(x, y) ==
  \/ x = y
  \/ \E i \in 1..Len(UpperChars) : {x, y} = {UpperChars[i], LowerChars[i]}

EqualIgnoringCase(a, b) ==
  /\ Len(a) = Len(b)
  /\ \A i \in 1..Len(a) : SameLetter(a[i], b[i])

LastWasUserSubmit ==
  mgr_last.op \in {"process_user_signature", "process_user_transaction"}

\* C10: process_user_signature and process_user_transaction answer success
\* exactly when the user role is connected and from_address equals the
\* mirrored address ignoring case, and error otherwise; on success the
\* submitted parameters are returned unchanged.
C10_ProvenanceCheck ==
  LastWasUserSubmit =>
    /\ mgr_last.result.status = "success"
         <=> (/\ user_connected
              /\ user_wallet_info.some
              /\ EqualIgnoringCase(user_wallet_info.address, mgr_last.args[1]))
    /\ mgr_last.result.status # "success" => mgr_last.result.status = "error"
    /\ mgr_last.result.status = "success" => mgr_last.result.data = mgr_last.args

(***************************************************************************)
(* Properties of the wallet manager's roles and of its providers.          *)
(***************************************************************************)
\* The step just taken was this operation of the manager or of a provider.
Performed(op) == Len(mgr_trace') = Len(mgr_trace) + 1 /\ mgr_last'.op = op

\* The operation op was performed before the last operation, and none of the
\* operations in reconnect came between it and the last one.
Since(op, reconnect) ==
  \E i \in 1..(Len(mgr_trace) - 1) :
    /\ mgr_trace[i].op = op
    /\ \A j \in (i + 1)..(Len(mgr_trace) - 1) : mgr_trace[j].op \notin reconnect

\* One of the operations in ops had ended when the last operation was called,
\* and none of the operations in reconnect had ended after it by then.
CalledSince(ops, reconnect) ==
  \E i \in 1..mgr_last.at.since :
    /\ mgr_trace[i].op \in ops
    /\ \A j \in (i + 1)..mgr_last.at.since : mgr_trace[j].op \notin reconnect

RobotOps == {"robot_sign_message", "robot_send_transaction", "robot_get_balance"}

\* C11: while the robot role is not connected, robot_sign_message,
\* robot_send_transaction and robot_get_balance raise the manager's
\* not-connected error without calling the provider; while it is connected
\* they call the provider and give back what it gave.  The role is the one
\* the call found: the flag is read once, when the operation is called.
C11_RobotGuard ==
  mgr_last.op \in RobotOps =>
    /\ ~mgr_last.at.connected => mgr_last.result = RobotNotConnected
    /\ mgr_last.at.connected =>
         /\ mgr_last.result.invoked
         /\ mgr_last.result.raised # RobotNotConnected.raised
         /\ (mgr_last.op = "robot_sign_message" /\ mgr_last.at.account) =>
              mgr_last.result.value = <<"signature", RobotAddress, mgr_last.args[1]>>

\* C11 witness: connect failed at the endpoint, so the provider holds an
\* account while the role is not connected; signing is refused by the manager.
C11_Witness ==
  /\ mgr_trace = << [op |-> "connect_robot_wallet", how |-> "ConnectionError"],
                    [op |-> "robot_sign_message", how |-> "RuntimeError"] >>
  /\ ~robot_connected
  /\ robot_account
  /\ mgr_last.result = RobotNotConnected

\* C12: on both providers a get_balance made after a disconnect, with no
\* connect of that role in between, raises the provider's not-connected error
\* and issues no rpc request.  For the robot's provider the call is made when
\* get_balance is entered, which is when it reads its client.  The user's
\* provider is disconnected by disconnect_user_wallet or by its own
\* disconnect, and connected again by whichever call sets its wallet info.
C12_GetBalanceAfterDisconnect ==
  /\ (/\ mgr_last.op = "robot_wallet.get_balance"
      /\ CalledSince({"disconnect_robot_wallet", "robot_wallet.disconnect"},
                     {"connect_robot_wallet", "robot_wallet.connect"}))
     => /\ mgr_last.result.raised = Error("RuntimeError", "Wallet not connected")
        /\ mgr_last.result.calls = <<>>
  /\ (/\ mgr_last.op = "user_wallet.get_balance"
      /\ \E op \in {"disconnect_user_wallet", "user_wallet.disconnect"} :
           Since(op, {"connect_user_wallet", "user_wallet.set_wallet_info"}))
     => mgr_last.result.raised = Error("RuntimeError", "User wallet not connected")

\* C12 witness: the robot wallet connected, was disconnected, and then its
\* provider was asked for a balance.
C12_Witness ==
  /\ mgr_trace = << [op |-> "connect_robot_wallet", how |-> "returned"],
                    [op |-> "disconnect_robot_wallet", how |-> "returned"],
                    [op |-> "robot_wallet.get_balance", how |-> "RuntimeError"] >>
  /\ mgr_last.result.raised = Error("RuntimeError", "Wallet not connected")

UserUnsupportedOps == {"user_wallet.sign_message", "user_wallet.send_transaction"}

\* C13: sign_message and send_transaction of the user provider raise
\* NotImplementedError in every state and for every argument, and leave the
\* mirrored wallet info and the user flag as they were.
C13_UserProviderUnsupported ==
  /\ [](mgr_last.op \in UserUnsupportedOps =>
          mgr_last.result.raised.type = "NotImplementedError")
  /\ [][(\E op \in UserUnsupportedOps : Performed(op)) =>
          /\ user_wallet_info' = user_wallet_info
          /\ user_connected' = user_connected]_vars

\* C13 witness: sign_message on the user provider while a wallet is mirrored.
C13_Witness ==
  /\ mgr_last.op = "user_wallet.sign_message"
  /\ user_connected
  /\ user_wallet_info.some
  /\ mgr_last.result.raised.type = "NotImplementedError"

\* C14: after connect_user_wallet the user role is connected and the one
\* mirrored wallet info is made of the arguments of that call alone; a
\* repeated call with the same arguments changes nothing.
C14_ConnectUserOverwrites ==
  /\ [](mgr_last.op = "connect_user_wallet" =>
          /\ user_connected
          /\ user_wallet_info = [some |-> TRUE, address |-> mgr_last.args[1],
                                 chain_id |-> mgr_last.args[2],
                                 balance |-> mgr_last.args[3],
                                 provider_name |-> "user_browser"])
  /\ [][(/\ Performed("connect_user_wallet")
         /\ mgr_last.op = "connect_user_wallet"
         /\ mgr_last'.args = mgr_last.args)
        => /\ user_wallet_info' = user_wallet_info
           /\ user_connected' = user_connected]_vars

\* C14 witness: three calls in a row, the last with an address, a chain and a
\* balance of its own.
C14_Witness ==
  /\ Len(mgr_trace) = 3
  /\ \A i \in 1..3 : mgr_trace[i].op = "connect_user_wallet"
  /\ user_connected
  /\ user_wallet_info.address = <<"0","x","c","d">>
  /\ user_wallet_info.chain_id = 1
  /\ user_wallet_info.balance = NoNum

\* C15: disconnect_robot_wallet and disconnect_user_wallet return without an
\* error in every state; afterwards the role's flag is false and its provider
\* holds no account, client or wallet info; a second call changes nothing.
C15_DisconnectIdempotent ==
  /\ [](mgr_last.op = "disconnect_robot_wallet" =>
          /\ mgr_last.result.raised = NoError
          /\ ~robot_connected /\ ~robot_account /\ ~robot_w3)
  /\ [](mgr_last.op = "disconnect_user_wallet" =>
          /\ mgr_last.result.status = "returned"
          /\ ~user_connected /\ user_wallet_info = NoWalletInfo)
  /\ [][(\E op \in {"disconnect_robot_wallet", "disconnect_user_wallet"} :
           Performed(op) /\ mgr_last.op = op)
        => UNCHANGED <<robot_connected, robot_account, robot_w3,
                       user_connected, user_wallet_info>>]_vars

\* C15 witness: the robot wallet connected and was then disconnected twice.
C15_Witness ==
  /\ mgr_trace = << [op |-> "connect_robot_wallet", how |-> "returned"],
                    [op |-> "disconnect_robot_wallet", how |-> "returned"],
                    [op |-> "disconnect_robot_wallet", how |-> "returned"] >>
  /\ ~robot_connected /\ ~robot_account /\ ~robot_w3

\* C16: connect_robot_wallet sets the robot flag exactly when the provider's
\* connect returns; when connect raises (key absent, key unusable, endpoint
\* failing) that error is what the caller gets and the flag keeps its value.
C16_ConnectRobotFlag ==
  /\ [](mgr_last.op = "connect_robot_wallet" =>
          /\ mgr_last.result.invoked
          /\ mgr_last.result.raised = NoError => robot_connected
          /\ mgr_last.args[1] = "absent" =>
               mgr_last.result.raised =
                 Error("ValueError", "ETH_PRIVATE_KEY environment variable is not set")
          /\ (mgr_last.args[1] = "valid" /\ mgr_last.args[2].failAt # 0) =>
               mgr_last.result.raised.type = "ConnectionError")
  /\ [][Performed("connect_robot_wallet") =>
          robot_connected' = (IF mgr_last'.result.raised = NoError THEN TRUE
                              ELSE robot_connected)]_vars

\* C16 witness: a failed first connect leaves the flag false, a successful
\* one sets it, and a later connect without the key leaves it set.
C16_Witness ==
  /\ mgr_trace = << [op |-> "connect_robot_wallet", how |-> "ConnectionError"],
                    [op |-> "connect_robot_wallet", how |-> "returned"],
                    [op |-> "connect_robot_wallet", how |-> "ValueError"] >>
  /\ robot_connected

(***************************************************************************)
(* Properties of the balance detector and of the notification buffer.      *)
(***************************************************************************)
\* The step just taken was this step of the detector or of its consumer.
DetectorDid(op) == now' = now + 1 /\ det_last'.op = op

\* The last event of the trace.
LastEvent == det_trace[Len(det_trace)]

\* C17 (as claimed): when deltas d1..dn were buffered and the buffer is then
\* consumed, the amount of the message is d1 + ... + dn written with five
\* decimals.
C17_SumToFiveDecimals ==
  (det_last.op = "formatted_latest_buffer" /\ det_last.result.some)
  => det_last.result.message = Format5(SumOf(LastEvent.raws))

\* The entries put into the buffer, and the entries taken out of it by the
\* consumptions, in the order of the trace.
RECURSIVE EntriesOf(_, _)
EntriesOf(trace, ev) ==
  IF trace = <<>> THEN <<>>
  ELSE (IF trace[1].ev = ev THEN trace[1].entries ELSE <<>>) \o EntriesOf(Tail(trace), ev)

\* The consumptions that found something in the buffer.
Aggregations == SelectSeq(det_trace, LAMBDA e : e.ev = "consume" /\ e.entries # <<>>)

\* C18: a consumption of an empty buffer returns no message, adds nothing to
\* the sink and leaves the buffer empty; after every consumption the buffer
\* is empty, so a consumption that directly follows one is of that kind.
C18_EmptyConsumptionNoOp ==
  /\ [][(DetectorDid("formatted_latest_buffer") /\ messages = <<>>) =>
          /\ det_last'.result = NoMessage
          /\ det_sink' = det_sink
          /\ messages' = <<>>]_vars
  /\ [](det_last.op = "formatted_latest_buffer" => messages = <<>>)
  /\ [][(DetectorDid("formatted_latest_buffer") /\ det_last.op = "formatted_latest_buffer") =>
          /\ det_last'.result = NoMessage
          /\ det_sink' = det_sink
          /\ messages' = <<>>]_vars

\* C18 witness: a consumption that aggregated an entry, directly followed by
\* one that found the buffer empty.
C18_Witness ==
  /\ Len(det_trace) >= 2
  /\ LastEvent.ev = "consume" /\ LastEvent.entries = <<>>
  /\ det_trace[Len(det_trace) - 1].ev = "consume"
  /\ det_trace[Len(det_trace) - 1].entries # <<>>
  /\ det_last.op = "formatted_latest_buffer"
  /\ det_last.result = NoMessage
  /\ Len(det_sink) = 1
  /\ messages = <<>>

\* C19: under every interleaving of the listen loop and the consumer, the
\* entries appended so far are, in order, those taken by the consumptions
\* followed by those still buffered, and every record of the sink is the sum
\* of the entries of one consumption: no entry is lost, none is counted twice.
C19_EveryDeltaOnce ==
  /\ EntriesOf(det_trace, "consume") \o messages = EntriesOf(det_trace, "append")
  /\ Len(det_sink) = Len(Aggregations)
  /\ \A i \in 1..Len(det_sink) :
       det_sink[i].message =
         Format5(SumOf([k \in 1..Len(Aggregations[i].entries) |->
                          FloatOf(Aggregations[i].entries[k].message)]))

\* C19 witness: a message was built before a consumption, appended after it,
\* and taken by the next consumption.
C19_Witness ==
  /\ Len(Aggregations) = 2
  /\ Aggregations[2].entries[1].timestamp < Aggregations[1].at
  /\ messages = <<>>
  /\ Len(det_sink) = 2

\* C20: a _poll whose balance request succeeded stores the fetched balance as
\* previous and reports fetched - previous; raw_to_text buffers an entry for
\* it exactly when that change is positive.
C20_DeltaMode ==
  /\ [][(DetectorDid("_poll") /\ det_account /\ det_last'.fetch.ok) =>
          /\ ETH_balance_previous' = det_last'.fetch.value
          /\ ETH_balance' = det_last'.fetch.value
          /\ det_loop'.raw.change = det_last'.fetch.value - ETH_balance_previous
          /\ messages' = messages]_vars
  /\ [][DetectorDid("_raw_to_text") =>
          /\ (det_loop'.pc = "pending") <=> (det_loop.raw.change > 0)
          /\ det_loop'.pc = "pending" => det_loop'.raw = det_loop.raw]_vars
  /\ [][(messages' # messages /\ messages' # <<>>) =>
          /\ det_loop.pc = "pending"
          /\ det_loop.raw.change > 0
          /\ Len(messages') = Len(messages) + 1]_vars
  /\ [][(det_loop.pc = "pending" /\ det_loop'.pc # "pending") =>
          Len(messages') = Len(messages) + 1]_vars

\* C20 witness: an increase was buffered, and a later poll that fetched a
\* lower balance stored it as previous and buffered nothing.
C20_Witness ==
  /\ det_last.op = "_raw_to_text"
  /\ det_loop.pc = "idle"
  /\ Len(messages) = 1
  /\ Len(det_trace) = 1
  /\ det_last.raw.change < 0
  /\ ETH_balance_previous = det_last.raw.current

(***************************************************************************)
(* The transaction-scan detector (ScanSpec).                               *)
(***************************************************************************)
\* A poll has returned and the listen loop has not entered the next one: the
\* fields of the instance are as that poll left them.
ScanPolled == scan_last.op = "_poll" /\ Polling = {}

\* The history the most recent poll was run against.
PollHistory == SubSeq(history, 1, scan_last.seen)

\* What a transaction gave the tracked account, nothing unless it gained.
Gain(tx) ==
  IF LamportsChange(tx, Pubkey) > 0 THEN LamportsToSol(LamportsChange(tx, Pubkey)) ELSE 0

\* The gains of the transactions of h newer than the cursor.
GainsAfter(h, cursor) == SumOf([i \in 1..(Len(h) - cursor) |-> Gain(h[cursor + i])])

\* The gains of the new transactions the most recent poll was given.
GainsSeen ==
  LET new == scan_last.out.new_signatures
  IN  SumOf([i \in 1..Len(new) |->
               IF new[i] = scan_last.env.failTx THEN 0 ELSE Gain(PollHistory[new[i]])])

Called(rpc) == \E i \in 1..Len(scan_last.out.calls) : scan_last.out.calls[i].rpc = rpc

\* C21: the delta a scan-mode poll reports is the sum, over the transactions
\* newer than the cursor, of the strictly positive balance changes of the
\* tracked account in native units; negative and zero changes and
\* transactions that do not name the account add nothing.
C21_PositiveDeltaSum ==
  (ScanPolled /\ scan_last.out.listed) =>
     scan_last.out.raw.change = GainsAfter(PollHistory, scan_last.before.cursor)

\* C22: after every scan-mode poll that received a non-empty signature list
\* the cursor is the newest signature of that list, whatever the changes were
\* and whether or not a transaction fetch failed; one new transaction
\* 100 -> 150 reports +50, one 100 -> 80 reports 0, and both advance the cursor.
C22_CursorToNewest ==
  /\ (ScanPolled /\ scan_last.out.listed /\ scan_last.out.signatures # <<>>) =>
        /\ last_signature = scan_last.out.signatures[1]
        /\ last_signature = scan_last.seen
  /\ (ScanPolled /\ scan_last.out.listed /\ Len(scan_last.out.new_signatures) = 1) =>
        LET s == scan_last.out.new_signatures[1]
        IN  /\ (PollHistory[s] = Incoming /\ scan_last.env = NoScanFailure) =>
                  /\ scan_last.out.raw.change = LamportsToSol(150000 - 100000)
                  /\ last_signature = s
            /\ PollHistory[s] = Outgoing =>
                  /\ scan_last.out.raw.change = 0
                  /\ last_signature = s

\* A poll whose fetch of a new transaction failed, and the cursor moved on.
C22_Witness ==
  /\ ScanPolled /\ scan_last.out.listed
  /\ scan_last.env.failTx # NoSignature
  /\ PollHistory[scan_last.env.failTx] = Incoming
  /\ scan_last.before.cursor # last_signature
  /\ last_signature = scan_last.out.signatures[1]

\* Two polls in a row over the same history.
Repolled ==
  ScanPolled /\ scan_last.prior.op = "_poll" /\ scan_last.prior.seen = scan_last.seen

\* The second of them found nothing: delta 0, no transaction fetched, nothing
\* to buffer, the cursor where it was.
NothingNew ==
  /\ scan_last.out.raw.change = 0
  /\ ~Called("get_transaction")
  /\ ~RawToTextMessage(scan_last.out.raw, now).some
  /\ det_loop.pc # "pending"
  /\ scan_last.out.cursor = scan_last.before.cursor
  /\ last_signature = scan_last.before.cursor

\* C23 as claimed: if the history of the account is unchanged between two
\* consecutive scan-mode polls, the second reports delta 0, fetches no
\* transaction, buffers no notification and leaves the cursor where it was.
C23_UnchangedHistory == Repolled => NothingNew

\* C23: the same, for a second poll that follows a poll which received the
\* signature list (a poll that failed before reading the list has not moved
\* the cursor, and the next one reports what it missed).
C23_UnchangedHistoryAfterListing == (Repolled /\ scan_last.prior.listed) => NothingNew

\* A second poll over an unchanged, non-empty history.
C23_Witness ==
  /\ Repolled /\ scan_last.prior.listed /\ scan_last.out.listed
  /\ scan_last.out.signatures # <<>>
  /\ NothingNew

\* C29: over a history that only grows the cursor never moves back to an
\* older signature, and a poll that receives an empty list or fails before
\* reading the list leaves the cursor unchanged.
C29_CursorMonotonic ==
  [][ /\ last_signature' >= last_signature
      /\ (/\ scan_last'.polls = scan_last.polls + 1
          /\ (~scan_last'.out.listed \/ scan_last'.out.signatures = <<>>))
           => last_signature' = scan_last'.before.cursor ]_vars

\* A poll that failed before reading the list, the cursor kept past the start.
C29_Witness ==
  /\ ScanPolled /\ sol_account /\ ~scan_last.out.listed
  /\ last_signature # NoSignature
  /\ last_signature < Len(history)

\* C30: a scan-mode poll queries the balance exactly when the sum of the
\* positive changes of the newly seen transactions is positive; otherwise it
\* returns the cached balance with delta 0 and leaves the cached balance as
\* it was.
C30_RefreshOnlyOnGain ==
  ScanPolled =>
    /\ Called("get_balance") <=> (scan_last.out.listed /\ GainsSeen > 0)
    /\ ~(scan_last.out.listed /\ GainsSeen > 0) =>
          /\ scan_last.out.raw = [current |-> scan_last.before.balance, change |-> 0]
          /\ scan_last.out.balance = scan_last.before.balance
          /\ SOL_balance = scan_last.before.balance

\* A poll that saw new transactions without a gain, the cached balance being
\* one an earlier poll had queried.
C30_Witness ==
  /\ ScanPolled /\ scan_last.out.listed
  /\ scan_last.out.new_signatures # <<>>
  /\ GainsSeen = 0
  /\ ~Called("get_balance")
  /\ SOL_balance > 0
  /\ SOL_balance = scan_last.before.balance

(***************************************************************************)
(* Instances constructed without their private key (KeylessSpec).          *)
(***************************************************************************)
LastParsed == ParseParams(last.iface)

\* The last command was poll, sign with a message, or transfer with an
\* address and an amount.
CompleteCommand ==
  \/ ActionOf(last.iface) = PollVerb
  \/ ActionOf(last.iface) = SignVerb /\ Truthy(LastParsed.message)
  \/ /\ ActionOf(last.iface) = TransferVerb
     /\ Truthy(LastParsed.to_address)
     /\ LastParsed.amount.some

\* C24: an instance constructed without its private key stays uninitialized
\* whatever is done with it later: poll, sign and transfer commands fail with
\* the reason wallet_not_initialized, detector polls report delta 0 and
\* buffer nothing, and no call reaches the chain.
C24_AbsentKeyUninitialized ==
  /\ privateKey = "absent" =>
        /\ ~account
        /\ Invoked => NoChainCall /\ ~last.out.signed.some
        /\ (Invoked /\ CompleteCommand) => FailedWith("wallet_not_initialized")
  /\ ~sol_account =>
        /\ ScanPolled => /\ scan_last.out.raw.change = 0
                         /\ scan_last.out.calls = <<>>
                         /\ scan_last.out.raw.current = 0
        /\ messages = <<>>
        /\ det_loop.pc # "pending"
        /\ last_signature = NoSignature
        /\ SOL_balance = 0

\* A keyless dispatcher was given a complete transfer command and a keyless
\* detector polled an account that had received a transfer.
C24_Witness ==
  /\ privateKey = "absent" /\ ~sol_account
  /\ Invoked /\ ActionOf(last.iface) = TransferVerb /\ CompleteCommand
  /\ Len(sink) = 2
  /\ ScanPolled /\ scan_last.polls = 2
  /\ history # <<>>

(***************************************************************************)
(* Transfers and their confirmation (Spec).                                *)
(***************************************************************************)
\* The step that waits for the confirmation of the broadcast transaction.
ConfirmationStep(c) == Len(TransferSteps(c))

\* The last command broadcast a transaction and the wait for its
\* confirmation raised.
ConfirmationExpired ==
  /\ Invoked
  /\ last.out.handler = "transfer"
  /\ last.out.broadcast
  /\ last.out.raised = ConfirmationStep(chain)

\* C25: a transfer that was broadcast and whose confirmation wait expired
\* ends in an outcome of its own, reported neither as a failure nor as a
\* success.
C25_ConfirmationUnknown ==
  ConfirmationExpired =>
    /\ Len(last.out.writes) = 1
    /\ last.out.writes[1].status \notin {"failed", "success"}

Count(s, x) == Cardinality({i \in 1..Len(s) : s[i] = x})

\* The calls a send of the robot role issued, once it has ended.
RobotSendOps == {"robot_send_transaction", "robot_wallet.send_transaction"}

\* C26: one transfer command of a dispatcher, and one robot_send_transaction
\* of the manager or send_transaction of its provider, broadcasts a
\* transaction at most once, whatever fails before, during or after the
\* broadcast; no call to the chain is issued a second time, only a transfer
\* broadcasts, and a send that returns its hash has broadcast exactly once.
C26_BroadcastAtMostOnce ==
  /\ Invoked =>
       /\ Count(last.out.calls, BroadcastStep(chain)) <= 1
       /\ last.out.broadcast => Count(last.out.calls, BroadcastStep(chain)) = 1
       /\ last.out.handler # "transfer" => Count(last.out.calls, BroadcastStep(chain)) = 0
       /\ \A i, j \in 1..Len(last.out.calls) : last.out.calls[i] = last.out.calls[j] => i = j
  /\ mgr_last.op \in RobotSendOps =>
       /\ Count(mgr_last.result.calls, BroadcastStep("evm")) <= 1
       /\ mgr_last.result.raised = NoError =>
            Count(mgr_last.result.calls, BroadcastStep("evm")) = 1
       /\ ~mgr_last.result.invoked => mgr_last.result.calls = <<>>
       /\ \A i, j \in 1..Len(mgr_last.result.calls) :
            mgr_last.result.calls[i] = mgr_last.result.calls[j] => i = j

\* C26 witness: a robot_send_transaction whose wait for the receipt raised
\* after the broadcast: the transaction was handed to the network once and
\* the error reached the caller.
C26_Witness ==
  /\ mgr_last.op = "robot_send_transaction"
  /\ mgr_last.result.raised = Error("Exception", "wait_for_transaction_receipt")
  /\ Count(mgr_last.result.calls, BroadcastStep("evm")) = 1
  /\ mgr_last.result.calls[Len(mgr_last.result.calls) - 1] = BroadcastStep("evm")

(***************************************************************************)
(* Replies that arrive after the role was disconnected (InFlightSpec).     *)
(***************************************************************************)
\* The robot role was connected when the call was issued and has been
\* disconnected since.
DisconnectedSince(w) ==
  /\ w.connected
  /\ \E i \in (w.since + 1)..Len(mgr_trace) : mgr_trace[i].op = "disconnect_robot_wallet"

\* C27: when the robot role is disconnected while a balance query or a poll
\* waits for its reply, the reply is discarded when it arrives: the query
\* does not return a balance, and the poll writes neither the cached balance
\* nor the cursor.
C27_ReplyDiscardedAfterDisconnect ==
  [][ \A w \in rpc_wait :
        (w \notin rpc_wait' /\ DisconnectedSince(w)) =>
           /\ w.task = "robot_get_balance" => mgr_last'.result.raised.type # "none"
           /\ w.task = "WalletSolana._poll" =>
                 /\ last_signature' = last_signature
                 /\ SOL_balance' = SOL_balance
                 /\ SOL_balance_previous' = SOL_balance_previous ]_vars

(***************************************************************************)
(* Tasks of one event loop (EventLoopSpec).                                *)
(***************************************************************************)
\* C28: while a poll of one account, or a connect of the provider, waits for
\* the reply of the endpoint, the other tasks of the event loop can take
\* steps: the waiting call does not hold the thread of the loop.
C28_PollLeavesLoopFree ==
  \A w \in rpc_wait :
     w.task \in {"WalletCoinbase._poll", "CoinbaseProvider.connect"} => LoopThreadFree

(***************************************************************************)
(* Properties of the consumed notification buffer (DetectorSpec).          *)
(***************************************************************************)
\* C31: every consumption of a non-empty buffer adds exactly one record to
\* the sink, the record carries the timestamp of the entry appended last (not
\* the time of the consumption), and the buffer is empty afterwards.
C31_OneRecordStampedByLastEntry ==
  /\ Len(det_sink) = Len(Aggregations)
  /\ \A i \in 1..Len(Aggregations) :
       LET taken == Aggregations[i].entries
       IN  i <= Len(det_sink) => det_sink[i].timestamp = taken[Len(taken)].timestamp
  /\ (det_last.op = "formatted_latest_buffer" /\ LastEvent.entries # <<>>) =>
       /\ messages = <<>>
       /\ det_last.result.some
       /\ det_last.result.timestamp = LastEvent.entries[Len(LastEvent.entries)].timestamp
       /\ det_sink[Len(det_sink)].timestamp = det_last.result.timestamp

\* C31 witness: two entries built at different times were consumed later
\* still; the one record written bears the time of the second entry.
C31_Witness ==
  /\ det_last.op = "formatted_latest_buffer"
  /\ Len(LastEvent.entries) = 2
  /\ LastEvent.entries[1].timestamp < LastEvent.entries[2].timestamp
  /\ LastEvent.entries[2].timestamp < LastEvent.at
  /\ Len(det_sink) = 1
  /\ det_sink[1].timestamp = LastEvent.entries[2].timestamp
  /\ messages = <<>>

(***************************************************************************)
(* Properties of WalletMultiProvider (MultiProviderSpec).                  *)
(***************************************************************************)
\* The step just taken was a handle_transaction, which reads the clock.
RecordedTransaction == multi_last'.op = "handle_transaction" /\ now' = now + 1

\* C32: the list of transaction records only grows: every step leaves the
\* records it held as they were, handle_transaction appends exactly one and
\* no other operation changes the list; a poll returns the record appended
\* last when there is one and the connection state of both chains otherwise.
C32_TransactionsOnlyGrow ==
  /\ [][/\ Len(transactions') >= Len(transactions)
        /\ SubSeq(transactions', 1, Len(transactions)) = transactions
        /\ IF RecordedTransaction
           THEN Len(transactions') = Len(transactions) + 1
           ELSE transactions' = transactions]_vars
  /\ [](multi_last.op = "_poll" =>
          IF Len(transactions) >= 1
          THEN /\ multi_last.result.type = "transaction"
               /\ multi_last.result.timestamp = transactions[Len(transactions)].timestamp
               /\ multi_last.result.chain = transactions[Len(transactions)].chain
               /\ multi_last.result.from = transactions[Len(transactions)].from_address
               /\ multi_last.result.to = transactions[Len(transactions)].to_address
               /\ multi_last.result.amount = transactions[Len(transactions)].amount
               /\ multi_last.result.tx_hash = transactions[Len(transactions)].tx_hash
          ELSE /\ multi_last.result.type = "wallet_state"
               /\ multi_last.result.evm = connected_wallets.evm
               /\ multi_last.result.solana = connected_wallets.solana)

\* C32 witness: two transactions of different chains were recorded and the
\* poll after them returned the second.
C32_Witness ==
  /\ Len(transactions) = 2
  /\ transactions[1].chain # transactions[2].chain
  /\ transactions[1].timestamp < transactions[2].timestamp
  /\ multi_last.op = "_poll"
  /\ multi_last.result.type = "transaction"
  /\ multi_last.result.timestamp = transactions[2].timestamp
  /\ multi_last.result.chain = transactions[2].chain

\* C33 (as claimed): only transactions confirmed after the detector started
\* contribute to a reported delta or to a notification; while nothing has
\* arrived since start-up no poll reports a positive delta, whatever the
\* account's history held before.
C33_NoBacklogReported ==
  arrivals = 0 =>
    /\ ScanPolled => scan_last.out.sum = 0 /\ scan_last.out.raw.change = 0
    /\ det_loop.raw.change = 0
    /\ ~det_loop.pending.some
    /\ messages = <<>>

\* C34 (as claimed): every incoming transfer is in the delta of exactly one
\* poll: what a poll reports is the gain of the transactions its cursor
\* moved over, no more and no less, however many arrived since the poll
\* before and whichever single request failed.
C34_EveryTransferOnce ==
  ScanPolled =>
    scan_last.out.raw.change =
      GainsAfter(SubSeq(history, 1, scan_last.out.cursor), scan_last.before.cursor)

(***************************************************************************)
(* Failures and small amounts in the balance detector (DetectorSpec).      *)
(***************************************************************************)
\* C35: a delta-mode poll whose balance request fails reports delta 0 and
\* leaves the cached and the previous balance as they were; the previous
\* balance changes only in a poll whose request succeeded, and such a poll
\* reports the fetched balance minus the previous one, so an increase from
\* before the failed poll is reported in full by the next successful poll
\* and, the previous balance then being the fetched one, only once.
C35_FailedFetchKeepsBalances ==
  /\ [][(DetectorDid("_poll") /\ det_account /\ ~det_last'.fetch.ok) =>
          /\ det_loop'.raw.change = 0
          /\ det_loop'.raw.current = ETH_balance
          /\ ETH_balance' = ETH_balance
          /\ ETH_balance_previous' = ETH_balance_previous]_vars
  /\ [][(ETH_balance_previous' # ETH_balance_previous \/ ETH_balance' # ETH_balance) =>
          (DetectorDid("_poll") /\ det_last'.fetch.ok)]_vars
  /\ [][(DetectorDid("_poll") /\ det_account /\ det_last'.fetch.ok) =>
          /\ det_loop'.raw.change = det_last'.fetch.value - ETH_balance_previous
          /\ ETH_balance_previous' = det_last'.fetch.value]_vars

\* C35 witness: the request of a poll failed on a wallet that holds a
\* balance; the poll reported nothing and both balances are what they were.
C35_Witness ==
  /\ det_last.op = "_poll"
  /\ det_account
  /\ ~det_last.fetch.ok
  /\ det_last.before.previous > 0
  /\ det_loop.pc = "polled"
  /\ det_loop.raw.change = 0
  /\ ETH_balance = det_last.before.balance
  /\ ETH_balance_previous = det_last.before.previous

\* C36 (as claimed): no entry whose amount prints as 0.00000 is ever
\* buffered, and every message produced by consuming the buffer states a
\* strictly positive amount.
C36_PositiveAmounts ==
  /\ \A i \in 1..Len(messages) : messages[i].message > 0
  /\ \A i \in 1..Len(det_sink) : det_sink[i].message > 0

(***************************************************************************)
(* The confirmation of a transfer (Spec).                                  *)
(***************************************************************************)
\* C37 (as claimed): a transfer record with status success is written only
\* for a transaction that was confirmed as executed: never for one whose
\* receipt has status 0 or whose confirmation reports an error.
C37_SuccessOnlyWhenExecuted ==
  \A i \in 1..Len(last.out.writes) :
    (last.out.writes[i].action = TransferVerb /\ last.out.writes[i].status = "success")
      => last.env.receipt = "ok"

(***************************************************************************)
(* The two roles of the wallet manager (WalletSpec, ManagerSpec).          *)
(***************************************************************************)
\* C38 (as claimed): in every reachable state the robot connected flag is
\* set exactly when the robot provider holds its credentials, the account
\* and the RPC client; after a connect that failed part-way the provider
\* holds neither.
C38_FlagIffCredentials ==
  robot_connected <=> (robot_account /\ robot_w3)

\* Operations of the manager on the user role and on the robot role.
UserRoleOps ==
  {"connect_user_wallet", "disconnect_user_wallet", "process_user_signature",
   "process_user_transaction"}
RobotRoleOps == {"connect_robot_wallet", "disconnect_robot_wallet"} \cup RobotOps

\* C39: the operations on the user role leave the robot flag and the robot
\* provider as they were, the operations on the robot role leave the user
\* flag and the mirrored wallet info as they were, and process_user_signature
\* and process_user_transaction change neither role.
C39_RolesIsolated ==
  /\ [][(\E op \in UserRoleOps : Performed(op)) =>
          UNCHANGED <<robot_connected, robot_account, robot_w3>>]_vars
  /\ [][(\E op \in RobotRoleOps : Performed(op)) =>
          UNCHANGED <<user_connected, user_wallet_info>>]_vars
  /\ [][(Performed("process_user_signature") \/ Performed("process_user_transaction")) =>
          UNCHANGED <<robot_connected, robot_account, robot_w3, user_connected,
                      user_wallet_info>>]_vars

\* C39 witness: with the robot role connected, connect_user_wallet connected
\* the user role; the robot flag and the provider are as the robot's connect
\* left them.
C39_Witness ==
  /\ Len(mgr_trace) = 2
  /\ mgr_trace[1] = [op |-> "connect_robot_wallet", how |-> "returned"]
  /\ mgr_last.op = "connect_user_wallet"
  /\ robot_connected /\ robot_account /\ robot_w3
  /\ user_connected /\ user_wallet_info.some

(***************************************************************************)
(* The submit endpoint of the simulator (WebSimSpec).                      *)
(***************************************************************************)
\* C40 (as claimed): a sign or transfer submission that the manager does not
\* accept, because the user role is not connected or the sender is not the
\* connected address, is answered with status error and is not recorded in
\* the simulator state as a signature or transfer of the user; the answer is
\* success only when the manager's result is success.
C40_RejectedSubmitNotRecorded ==
  (/\ sim_last.op = "user_wallet_submit"
   /\ sim_last.phase = "done"
   /\ sim_last.data.action_type \in {"sign", "transfer"}) =>
     /\ sim_last.result.status # "success" =>
          /\ sim_last.response.status = "error"
          /\ sim_last.after = sim_last.before
     /\ sim_last.response.status = "success" => sim_last.result.status = "success"

====
